---- MODULE Spec2Model ----
(***************************************************************************)
(* Model of the API-automation report pipeline:                            *)
(*   scripts/make-suite-report.js  - per-suite report builder              *)
(*   scripts/cleanup-temp.js       - combined-report aggregator (parts)    *)
(*                                                                         *)
(* Text is modelled as a sequence of one-character strings, so that the    *)
(* regular expressions, escaping and JSON encoding of the scripts are      *)
(* computed character by character.  An optional JavaScript value          *)
(* (null / undefined / absent) is the empty tuple <<>>, a present value v  *)
(* is the one-element tuple <<v>>.                                         *)
(***************************************************************************)
EXTENDS Integers, Sequences, FiniteSets, TLC

(***************************************************************************)
(* Generic text helpers                                                    *)
(***************************************************************************)
Range(s) == { s[i] : i \in DOMAIN s }

Uppers == <<"A","B","C","D","E","F","G","H","I","J","K","L","M",
            "N","O","P","Q","R","S","T","U","V","W","X","Y","Z">>
Lowers == <<"a","b","c","d","e","f","g","h","i","j","k","l","m",
            "n","o","p","q","r","s","t","u","v","w","x","y","z">>
Digits == <<"0","1","2","3","4","5","6","7","8","9">>

UpperSet == Range(Uppers)
LowerSet == Range(Lowers)
DigitSet == Range(Digits)
LowerOf  == [c \in UpperSet |-> Lowers[CHOOSE i \in DOMAIN Uppers : Uppers[i] = c]]

\* String.prototype.toLowerCase on one character
ToLower(c) == IF c \in UpperSet THEN LowerOf[c] ELSE c

LowerStr(s) == [i \in 1..Len(s) |-> ToLower(s[i])]

\* the regular-expression class \w  ([A-Za-z0-9_])
WordChars == UpperSet \cup LowerSet \cup DigitSet \cup {"_"}
IsWordChar(c) == c \in WordChars

\* the regular-expression class [a-z0-9]
LowerAlnums == LowerSet \cup DigitSet
IsLowerAlnum(c) == c \in LowerAlnums

IsDigit(c) == c \in DigitSet

\* the regular-expression class \s, and the characters String.prototype.trim removes
IsSpace(c) == c \in {" ", "\t", "\n", "\r"}

\* pat occurs in s at position i (case-sensitive / case-insensitive)
StartsAt(s, i, pat) ==
  /\ i >= 1
  /\ i + Len(pat) - 1 <= Len(s)
  /\ \A k \in 1..Len(pat) : s[i + k - 1] = pat[k]

StartsAtCI(s, i, pat) ==
  /\ i >= 1
  /\ i + Len(pat) - 1 <= Len(s)
  /\ \A k \in 1..Len(pat) : ToLower(s[i + k - 1]) = ToLower(pat[k])

\* String.prototype.indexOf(pat, from) with 1-based positions; 0 when absent
IndexOf(s, pat, from) ==
  LET hits == { i \in from..Len(s) : StartsAt(s, i, pat) }
  IN  IF hits = {} THEN 0 ELSE CHOOSE i \in hits : \A j \in hits : i <= j

IndexOfCI(s, pat, from) ==
  LET hits == { i \in from..Len(s) : StartsAtCI(s, i, pat) }
  IN  IF hits = {} THEN 0 ELSE CHOOSE i \in hits : \A j \in hits : i <= j

ContainsCI(s, pat) == \E i \in 1..Len(s) : StartsAtCI(s, i, pat)

\* String.prototype.trim
Trim(s) ==
  LET keep == { i \in 1..Len(s) : ~IsSpace(s[i]) }
  IN  IF keep = {} THEN << >>
      ELSE SubSeq(s, CHOOSE i \in keep : \A j \in keep : i <= j,
                     CHOOSE i \in keep : \A j \in keep : i >= j)

RECURSIVE Concat(_)
\* Array.prototype.join('') of a sequence of texts
Concat(ss) == IF ss = << >> THEN << >> ELSE Head(ss) \o Concat(Tail(ss))

RECURSIVE JoinWith(_, _)
\* Array.prototype.join(sep)
JoinWith(ss, sep) ==
  IF ss = << >> THEN << >>
  ELSE IF Len(ss) = 1 THEN Head(ss)
  ELSE Head(ss) \o sep \o JoinWith(Tail(ss), sep)

RECURSIVE KeepIdx(_, _, _)
\* the subsequence of s at the positions >= i that belong to K
KeepIdx(s, K, i) ==
  IF i > Len(s) THEN << >>
  ELSE (IF i \in K THEN << s[i] >> ELSE << >>) \o KeepIdx(s, K, i + 1)

RECURSIVE SumSeq(_)
\* the sum of the elements of s (a.reduce((x,y)=>x+y,0)), by halves
SumSeq(s) ==
  IF s = << >> THEN 0
  ELSE IF Len(s) = 1 THEN s[1]
  ELSE LET h == Len(s) \div 2
       IN  SumSeq(SubSeq(s, 1, h)) + SumSeq(SubSeq(s, h + 1, Len(s)))

RECURSIVE NatToStr(_)
\* String(n) for a non-negative integer
NatToStr(n) == IF n < 10 THEN << Digits[n + 1] >>
               ELSE NatToStr(n \div 10) \o << Digits[(n % 10) + 1] >>

\* Math.round(num/den) for num >= 0, den > 0 (halves round up)
RoundDiv(num, den) == (2 * num + den) \div (2 * den)

(***************************************************************************)
(* Text constants of the scripts                                           *)
(***************************************************************************)
T_skip      == <<"s","k","i","p">>
T_OK        == <<"O","K">>
T_Assertion == <<"A","s","s","e","r","t","i","o","n">>
T_Request   == <<"R","e","q","u","e","s","t">>
T_Ungrouped == <<"U","n","g","r","o","u","p","e","d">>
T_Untitled  == <<"U","n","t","i","t","l","e","d">>
T_SC        == <<"S","C","_">>
T_Misc      == <<"M","i","s","c">>
T_Module    == <<"M","o","d","u","l","e">>
T_Parent    == <<"P","a","r","e","n","t">>
T_Temp      == <<"T","e","m","p">>
T_latest    == <<"_","l","a","t","e","s","t",".","h","t","m","l">>
T_anchor    == <<"n","e","w","m","a","n","c","o","l","l","e","c","t","i","o","n","l","i","s","t">>
T_amp       == <<"&","a","m","p",";">>
T_lt        == <<"&","l","t",";">>
T_gt        == <<"&","g","t",";">>
T_quot      == <<"&","q","u","o","t",";">>
T_apos      == <<"&","#","3","9",";">>

(***************************************************************************)
(* make-suite-report.js: helpers (lines 43-49)                             *)
(***************************************************************************)
\* avg = a => a.length ? Math.round(sum/a.length) : 0
avg(a) == IF Len(a) > 0 THEN RoundDiv(SumSeq(a), Len(a)) ELSE 0

RECURSIVE fmt(_)
\* fmt = n => n.toLocaleString() for a finite non-negative integer
\* (en-US grouping: a comma before every group of three digits)
fmt(n) ==
  IF n < 1000 THEN NatToStr(n)
  ELSE fmt(n \div 1000) \o <<",">> \o
       << Digits[((n % 1000) \div 100) + 1],
          Digits[((n % 100) \div 10) + 1],
          Digits[(n % 10) + 1] >>

escChar(c) ==
  CASE c = "&"  -> T_amp
    [] c = "<"  -> T_lt
    [] c = ">"  -> T_gt
    [] c = "\"" -> T_quot
    [] c = "'"  -> T_apos
    [] OTHER    -> << c >>

\* esc = s => String(s ?? '').replace(&,<,>,",')
esc(s) == Concat([i \in 1..Len(s) |-> escChar(s[i])])

\* idfy = s => lower-case, every run of [^a-z0-9] becomes one '-',
\*             one leading and one trailing '-' removed
idfy(s) ==
  LET low    == LowerStr(s)
      dashed == [i \in 1..Len(low) |-> IF IsLowerAlnum(low[i]) THEN low[i] ELSE "-"]
      keep   == { i \in 1..Len(dashed) :
                    dashed[i] # "-" \/ i = 1 \/ dashed[i - 1] # "-" }
      runs   == KeepIdx(dashed, keep, 1)
      noHead == IF runs # << >> /\ Head(runs) = "-" THEN Tail(runs) ELSE runs
  IN  IF noHead # << >> /\ noHead[Len(noHead)] = "-"
      THEN SubSeq(noHead, 1, Len(noHead) - 1) ELSE noHead

\* length of the prefix matched by /^SC_\d+_/ (0 when the pattern does not match)
ScPrefixLen(s) ==
  IF ~StartsAt(s, 1, T_SC) THEN 0
  ELSE LET nonDig == { i \in 4..Len(s) : ~IsDigit(s[i]) }
           e      == IF nonDig = {} THEN Len(s) + 1
                     ELSE CHOOSE i \in nonDig : \A j \in nonDig : i <= j
       IN  IF e > 4 /\ e <= Len(s) /\ s[e] = "_" THEN e ELSE 0

\* pretty = s => String(s||'').replace(/^SC_\d+_/,'').replace(/_/g,' ').trim() || 'Untitled'
pretty(s) ==
  LET cut    == SubSeq(s, ScPrefixLen(s) + 1, Len(s))
      spaced == [i \in 1..Len(cut) |-> IF cut[i] = "_" THEN " " ELSE cut[i]]
      t      == Trim(spaced)
  IN  IF t = << >> THEN T_Untitled ELSE t

\* a || b on texts (the empty text is falsy)
OrText(a, b) == IF a # << >> THEN a ELSE b

(***************************************************************************)
(* JSON.stringify / JSON.parse on arrays of texts                          *)
(***************************************************************************)
jsonChar(c) ==
  CASE c = "\"" -> <<"\\", "\"">>
    [] c = "\\" -> <<"\\", "\\">>
    [] c = "\n" -> <<"\\", "n">>
    [] c = "\t" -> <<"\\", "t">>
    [] c = "\r" -> <<"\\", "r">>
    [] OTHER    -> << c >>

\* JSON.stringify of one string
JsonQuote(s) == <<"\"">> \o Concat([i \in 1..Len(s) |-> jsonChar(s[i])]) \o <<"\"">>

\* JSON.stringify of an array of strings
JsonStringify(arr) ==
  <<"[">> \o JoinWith([i \in 1..Len(arr) |-> JsonQuote(arr[i])], <<",">>) \o <<"]">>

\* first position >= i of t that is not JSON whitespace
SkipWs(t, i) ==
  LET rest == { j \in i..Len(t) : ~IsSpace(t[j]) }
  IN  IF rest = {} THEN Len(t) + 1 ELSE CHOOSE j \in rest : \A k \in rest : j <= k

unescChar(c) ==
  CASE c = "n" -> "\n"
    [] c = "t" -> "\t"
    [] c = "r" -> "\r"
    [] OTHER   -> c

RECURSIVE ParseStrBody(_, _, _)
\* JSON string literal: t[i-1] was the opening quote; result is
\* [ok, val, next] with next the position after the closing quote
ParseStrBody(t, i, acc) ==
  IF i > Len(t) THEN [ok |-> FALSE, val |-> acc, next |-> i]
  ELSE IF t[i] = "\"" THEN [ok |-> TRUE, val |-> acc, next |-> i + 1]
  ELSE IF t[i] = "\\" THEN
         IF i + 1 <= Len(t) /\ t[i + 1] \in {"\"", "\\", "/", "n", "t", "r"}
         THEN ParseStrBody(t, i + 2, Append(acc, unescChar(t[i + 1])))
         ELSE [ok |-> FALSE, val |-> acc, next |-> i]
  ELSE IF t[i] \in {"\n", "\t", "\r"} THEN [ok |-> FALSE, val |-> acc, next |-> i]
  ELSE ParseStrBody(t, i + 1, Append(acc, t[i]))

RECURSIVE ParseElems(_, _, _)
\* the elements of a JSON array of strings after the '[' ; i is the
\* position where an element is expected
ParseElems(t, i, acc) ==
  LET p == SkipWs(t, i) IN
  IF p > Len(t) \/ t[p] # "\"" THEN [ok |-> FALSE, val |-> acc]
  ELSE LET s == ParseStrBody(t, p + 1, << >>)
           q == SkipWs(t, s.next)
       IN  IF ~s.ok \/ q > Len(t) THEN [ok |-> FALSE, val |-> acc]
           ELSE IF t[q] = "]"
                THEN [ok |-> SkipWs(t, q + 1) > Len(t), val |-> Append(acc, s.val)]
           ELSE IF t[q] = ","
                THEN ParseElems(t, q + 1, Append(acc, s.val))
           ELSE [ok |-> FALSE, val |-> acc]

\* JSON.parse restricted to arrays of strings: [ok, val]; ok = FALSE is a
\* SyntaxError
JsonParseArray(t) ==
  LET p == SkipWs(t, 1) IN
  IF p > Len(t) \/ t[p] # "[" THEN [ok |-> FALSE, val |-> << >>]
  ELSE LET q == SkipWs(t, p + 1) IN
       IF q <= Len(t) /\ t[q] = "]"
       THEN [ok |-> SkipWs(t, q + 1) > Len(t), val |-> << >>]
       ELSE ParseElems(t, p + 1, << >>)

(***************************************************************************)
(* make-suite-report.js: request/response helpers (lines 65-114)           *)
(*                                                                         *)
(* Shapes of the run JSON that are modelled:                               *)
(*   execution  <<>> (null)  or  << [item, assertions, response, request,  *)
(*                                   iteration] >>                         *)
(*   assertion  <<>> (null)  or  << [assertion, error] >>                  *)
(*   error      <<>> (none)  or  << [test, name, message, stack] >>        *)
(*   response   <<>> (none)  or  << [code, status, responseTime, header,   *)
(*                                   text] >>                              *)
(*   request    <<>> (none)  or  << [method, url, header, body] >>         *)
(*   header item <<>> (null) or  << [key, value, disabled] >>              *)
(*   body       <<>> (none)  or  << [mode, raw] >>                         *)
(* url is a string (or an object with a raw member), header is a plain     *)
(* array, body is in raw mode.                                             *)
(***************************************************************************)
\* buildUrl(u): '' for a missing url, the string itself otherwise
buildUrl(u) == u

\* headersToObj(h): key -> value of the enabled items that have a key;
\* a later item overwrites an earlier one with the same key
headersToObj(h) ==
  LET live == { i \in DOMAIN h : h[i] # << >> /\ ~h[i][1].disabled /\ h[i][1].key # << >> }
      keys == { h[i][1].key : i \in live }
  IN  [k \in keys |->
         h[CHOOSE i \in live : h[i][1].key = k /\
                     \A j \in live : h[j][1].key = k => j <= i][1].value]

\* the array b.urlencoded or b.formdata of a body in that mode: params is
\* << >> when the property is missing, << v >> otherwise, v.list telling
\* whether v is an array and v.items holding its elements (<< >> for null)
paramsItems(b) ==
  IF b[1].params = << >> THEN << >> ELSE b[1].params[1].items

\* lines 96-97: (b.urlencoded||[]).map(p => ...) raises when the property is
\* no array (no map method) or holds a null element (p.key of null)
bodyThrows(b) ==
  /\ b # << >>
  /\ b[1].mode \in { "urlencoded", "formdata" }
  /\ b[1].params # << >>
  /\ \/ ~b[1].params[1].list
     \/ \E i \in DOMAIN b[1].params[1].items : b[1].params[1].items[i] = << >>

\* bodyFromRequest(b): '' without a body, the raw text in raw mode, the
\* key=value pairs joined by & (urlencoded) or by a line feed (formdata)
bodyFromRequest(b) ==
  IF b = << >> THEN << >>
  ELSE IF b[1].mode = "raw" THEN b[1].raw
  ELSE JoinWith([i \in DOMAIN paramsItems(b) |->
                   paramsItems(b)[i][1].key \o <<"=">> \o paramsItems(b)[i][1].value],
                IF b[1].mode = "urlencoded" THEN <<"&">> ELSE <<"\n">>)

\* JSON.parse(str) succeeds (array of strings, or an integer literal)
JsonValid(str) ==
  \/ JsonParseArray(str).ok
  \/ str # << >> /\ \A i \in DOMAIN str : IsDigit(str[i])

\* parseJsonOrText(body): '' | parsed JSON | the trimmed raw text
parseJsonOrText(body) ==
  LET str == Trim(body) IN
  IF str = << >> THEN [kind |-> "empty", text |-> << >>]
  ELSE IF JsonValid(str) THEN [kind |-> "json", text |-> str]
  ELSE [kind |-> "text", text |-> str]

\* respBody(res): res.text when it is a string, '' otherwise
respBody(res) == IF res = << >> THEN << >> ELSE res[1].text

(***************************************************************************)
(* make-suite-report.js: build test cases (lines 117-167)                  *)
(***************************************************************************)
\* ex?.assertions || []
assertionsOf(ex) == IF ex = << >> THEN << >> ELSE ex[1].assertions

\* variant: ex.assertions without the optional chaining
normalizeThrows_noGuard(ex) ==
  \/ ex = << >>
  \/ \E i \in DOMAIN ex[1].assertions : ex[1].assertions[i] = << >>
  \/ ex[1].request # << >> /\ bodyThrows(ex[1].request[1].body)

\* line 120: a.error on a null element of the assertions array is a TypeError;
\* line 148: bodyFromRequest(req.body) raises
normalizeThrows(ex) ==
  \/ \E i \in DOMAIN assertionsOf(ex) : assertionsOf(ex)[i] = << >>
  \/ ex # << >> /\ ex[1].request # << >> /\ bodyThrows(ex[1].request[1].body)

\* lines 126-130: one check per assertion
checkOf(a) ==
  [ name    |-> OrText(a.assertion,
                  IF a.error = << >> THEN T_Assertion
                  ELSE OrText(a.error[1].test, OrText(a.error[1].name, T_Assertion))),
    ok      |-> a.error = << >>,
    message |-> IF a.error # << >>
                THEN Trim(OrText(a.error[1].message, a.error[1].stack))
                ELSE T_OK ]

checksOf(ex) == [i \in DOMAIN assertionsOf(ex) |-> checkOf(assertionsOf(ex)[i][1])]

\* variant: /skip/i.test(s), the marker anywhere inside a word
skipRe_substring(s) == ContainsCI(s, T_skip)

\* /\bskip\b/i.test(s)
skipRe(s) ==
  \E i \in 1..Len(s) :
     /\ StartsAtCI(s, i, T_skip)
     /\ (i = 1 \/ ~IsWordChar(s[i - 1]))
     /\ (i + 4 > Len(s) \/ ~IsWordChar(s[i + 4]))

\* line 131
isSkip(checks) ==
  \E i \in DOMAIN checks : skipRe(checks[i].name) \/ skipRe(checks[i].message)

\* line 120
failedOf(ex) ==
  Cardinality({ i \in DOMAIN assertionsOf(ex) : assertionsOf(ex)[i][1].error # << >> })

\* variant: the error test before the skip test
resultOf_failFirst(ex) ==
  IF ex = << >> THEN "Not Run"
  ELSE IF Cardinality({ i \in DOMAIN assertionsOf(ex) :
                          assertionsOf(ex)[i][1].error # << >> }) > 0 THEN "Fail"
  ELSE IF \E i \in DOMAIN assertionsOf(ex) :
             \/ skipRe(checkOf(assertionsOf(ex)[i][1]).name)
             \/ skipRe(checkOf(assertionsOf(ex)[i][1]).message) THEN "Skipped"
  ELSE "Pass"

\* lines 132-136
resultOf(ex) ==
  IF ex = << >> THEN "Not Run"
  ELSE IF isSkip(checksOf(ex)) THEN "Skipped"
  ELSE IF failedOf(ex) > 0 THEN "Fail"
  ELSE "Pass"

\* ex?.item?.name || 'Request'
apiOf(ex) == IF ex = << >> THEN T_Request ELSE OrText(ex[1].item, T_Request)

\* (ex?.item?.name || 'Request').split('/')[0] || 'Ungrouped'
groupOf(ex) ==
  LET name  == apiOf(ex)
      slash == IndexOf(name, <<"/">>, 1)
      first == IF slash = 0 THEN name ELSE SubSeq(name, 1, slash - 1)
  IN  OrText(first, T_Ungrouped)

\* (ex?.cursor?.iteration ?? 0) + 1
iterationOf(ex) == IF ex = << >> THEN 1 ELSE ex[1].iteration + 1

\* String(n).padStart(3,'0')
padStart3(n) ==
  LET d == NatToStr(n) IN
  IF Len(d) >= 3 THEN d ELSE [i \in 1..(3 - Len(d)) |-> "0"] \o d

requestOf(ex)  == IF ex = << >> THEN << >> ELSE ex[1].request
responseOf(ex) == IF ex = << >> THEN << >> ELSE ex[1].response

\* lines 144-149
reqObjOf(ex) ==
  LET req == requestOf(ex) IN
  [ method  |-> IF req = << >> THEN << >> ELSE req[1].method,
    url     |-> IF req = << >> THEN << >> ELSE buildUrl(req[1].url),
    headers |-> IF req = << >> THEN headersToObj(<< >>) ELSE headersToObj(req[1].header),
    body    |-> parseJsonOrText(bodyFromRequest(IF req = << >> THEN << >> ELSE req[1].body)) ]

\* lines 150-155
resObjOf(ex) ==
  LET res == responseOf(ex) IN
  [ code    |-> IF res = << >> THEN << >> ELSE res[1].code,
    status  |-> IF res = << >> THEN << >> ELSE res[1].status,
    headers |-> IF res = << >> THEN headersToObj(<< >>) ELSE headersToObj(res[1].header),
    body    |-> parseJsonOrText(respBody(res)) ]

\* the callback of execs.map (lines 117-167)
testCaseOf(ex) ==
  [ id           |-> idfy(apiOf(ex) \o <<"-">> \o NatToStr(iterationOf(ex))),
    group        |-> groupOf(ex),
    api          |-> apiOf(ex),
    iteration    |-> iterationOf(ex),
    tcId         |-> <<"T","C">> \o padStart3(iterationOf(ex)),
    result       |-> resultOf(ex),
    checksPassed |-> Len(assertionsOf(ex)) - failedOf(ex),
    checksFailed |-> failedOf(ex),
    checksTotal  |-> Len(assertionsOf(ex)),
    statusCode   |-> IF responseOf(ex) = << >> THEN << >> ELSE responseOf(ex)[1].code,
    respMs       |-> IF responseOf(ex) = << >> THEN << >> ELSE responseOf(ex)[1].responseTime,
    checks       |-> checksOf(ex),
    reqObj       |-> reqObjOf(ex),
    resObj       |-> resObjOf(ex) ]

(***************************************************************************)
(* make-suite-report.js: aggregations (lines 170-221)                      *)
(***************************************************************************)
\* variant: a case without assertions is not considered
isConsidered_withChecks(tc) ==
  (tc.result = "Pass" \/ tc.result = "Fail") /\ tc.checksTotal > 0

\* variant: only Not Run is left out
isConsidered_withSkipped(tc) == tc.result # "Not Run"

isConsidered(tc) == tc.result = "Pass" \/ tc.result = "Fail"
isPass(tc)       == tc.result = "Pass"
isFail(tc)       == tc.result = "Fail"

\* line 170
considered(tcs) == SelectSeq(tcs, isConsidered)

\* variant: t.respMs < SLA_MS
inSLA_strict(tc, sla) == tc.respMs # << >> /\ tc.respMs[1] < sla

\* Number.isFinite(t.respMs) && t.respMs <= SLA_MS
inSLA(tc, sla) == tc.respMs # << >> /\ tc.respMs[1] <= sla

\* lines 171-176
suiteStats(tcs, sla) ==
  LET cons   == considered(tcs)
      total  == Len(cons)
      passed == Len(SelectSeq(cons, isPass))
      failed == Len(SelectSeq(cons, isFail))
      within == Cardinality({ i \in DOMAIN cons : inSLA(cons[i], sla) })
  IN  [ totalCases  |-> total,
        passedCases |-> passed,
        failedCases |-> failed,
        passPct     |-> IF total # 0 THEN RoundDiv(100 * passed, total) ELSE 0,
        withinSLA   |-> within,
        withinPct   |-> IF total # 0 THEN RoundDiv(100 * within, total) ELSE 0 ]

\* the distinct elements of s in order of first occurrence
\* (insertion order of a Map's keys / of a Set)
DistinctInOrder(s) ==
  KeepIdx(s, { i \in DOMAIN s : \A j \in 1..(i - 1) : s[j] # s[i] }, 1)

\* collation order of String.prototype.localeCompare, primary level:
\* punctuation before digits before letters, letter case ignored
CollOrder == <<" ", "_", "-", ",", ";", ":", "!", "?", ".", "'", "\"", "(", ")",
               "@", "*", "/", "\\", "&", "#", "%", "+", "<", "=", ">", "|">>
             \o Digits \o Lowers
CollRank == [c \in Range(CollOrder) |-> CHOOSE i \in DOMAIN CollOrder : CollOrder[i] = c]
CollKey(c) == IF ToLower(c) \in DOMAIN CollRank THEN CollRank[ToLower(c)] ELSE 0

\* a.localeCompare(b) < 0
LessText(a, b) ==
  LET n    == IF Len(a) < Len(b) THEN Len(a) ELSE Len(b)
      diff == { i \in 1..n : CollKey(a[i]) # CollKey(b[i]) }
  IN  IF diff = {} THEN Len(a) < Len(b)
      ELSE LET d == CHOOSE i \in diff : \A j \in diff : i <= j
           IN  CollKey(a[d]) < CollKey(b[d])

\* Array.prototype.sort((a,b) => a.pretty.localeCompare(b.pretty)), stable
SortByPretty(rows) ==
  LET before(j, i) == \/ LessText(rows[j].pretty, rows[i].pretty)
                      \/ /\ ~LessText(rows[i].pretty, rows[j].pretty)
                         /\ j < i
      pos(i) == 1 + Cardinality({ j \in DOMAIN rows : before(j, i) })
  IN  [p \in 1..Len(rows) |-> rows[CHOOSE i \in DOMAIN rows : pos(i) = p]]

\* lines 179-187: the byFolder entry of group g
folderEntry(cons, g) ==
  LET inG(tc)  == tc.group = g
      hasMs(tc) == tc.respMs # << >>
      apis     == SelectSeq(cons, inG)
      timed    == SelectSeq(apis, hasMs)
  IN  [ group |-> g,
        total |-> Len(apis),
        pass  |-> Len(SelectSeq(apis, isPass)),
        fail  |-> Len(apis) - Len(SelectSeq(apis, isPass)),
        resp  |-> [i \in 1..Len(timed) |-> timed[i].respMs[1]],
        apis  |-> apis ]

\* variant: Math.floor instead of Math.round
folderRowOf_floor(r) ==
  [ group   |-> r.group,
    pretty  |-> pretty(r.group),
    total   |-> r.total,
    pass    |-> r.pass,
    fail    |-> r.fail,
    passPct |-> IF r.total # 0 THEN (100 * r.pass) \div r.total ELSE 0,
    avgMs   |-> avg(r.resp),
    apis    |-> r.apis ]

\* lines 188-194
folderRowOf(r) ==
  [ group   |-> r.group,
    pretty  |-> pretty(r.group),
    total   |-> r.total,
    pass    |-> r.pass,
    fail    |-> r.fail,
    passPct |-> IF r.total # 0 THEN RoundDiv(100 * r.pass, r.total) ELSE 0,
    avgMs   |-> avg(r.resp),
    apis    |-> r.apis ]

buildFolderRows(tcs) ==
  LET cons   == considered(tcs)
      groups == DistinctInOrder([i \in 1..Len(cons) |-> cons[i].group])
  IN  SortByPretty([i \in 1..Len(groups) |-> folderRowOf(folderEntry(cons, groups[i]))])

\* lines 198-202: [...suiteApiSet]
buildSuiteApiSet(tcs) ==
  LET cons == considered(tcs)
  IN  DistinctInOrder([i \in 1..Len(cons) |-> pretty(cons[i].api)])

\* lines 209-218
buildApiSummaryForFolder(tcs, folderName) ==
  LET cons    == considered(tcs)
      inG(tc) == tc.group = folderName
      inF     == SelectSeq(cons, inG)
      apis    == DistinctInOrder([i \in 1..Len(inF) |-> inF[i].api])
      row(api) ==
        LET ofApi(tc) == tc.api = api
            cases == SelectSeq(inF, ofApi)
            pass  == Len(SelectSeq(cases, isPass))
            fail  == Len(SelectSeq(cases, isFail))
            tot   == pass + fail
        IN  [ api |-> api, pretty |-> pretty(api), pass |-> pass, fail |-> fail,
              tot |-> tot, pct |-> IF tot # 0 THEN RoundDiv(100 * pass, tot) ELSE 0 ]
  IN  [i \in 1..Len(apis) |-> row(apis[i])]

\* lines 219-221: one entry per folder row
buildApiSummary(tcs) ==
  LET rows == buildFolderRows(tcs)
  IN  [i \in 1..Len(rows) |->
         [ group |-> rows[i].group, apis |-> buildApiSummaryForFolder(tcs, rows[i].group) ]]

(***************************************************************************)
(* make-suite-report.js: suite identity from the output path (lines 51-62) *)
(* A path is the sequence of its segments, as produced by                  *)
(* String(path.resolve(p)).split(/[\\/]+/).                                *)
(***************************************************************************)
\* segs.findIndex(x => /newmancollectionlist/i.test(x)), 1-based; 0 for -1
anchorIndex(segs) ==
  LET hits == { i \in DOMAIN segs : ContainsCI(segs[i], T_anchor) }
  IN  IF hits = {} THEN 0 ELSE CHOOSE i \in hits : \A j \in hits : i <= j

\* deriveParentFromPath
deriveParentFromPath(segs) ==
  LET i == anchorIndex(segs)
  IN  IF i > 0 /\ i + 1 <= Len(segs) /\ segs[i + 1] # << >> THEN segs[i + 1] ELSE T_Misc

\* collection?.info?.name?.split("-").pop()?.trim() || "Module"
moduleFromCollection(name) ==
  LET dashes == { i \in DOMAIN name : name[i] = "-" }
      last   == IF dashes = {} THEN 0 ELSE CHOOSE i \in dashes : \A j \in dashes : i >= j
  IN  OrText(Trim(SubSeq(name, last + 1, Len(name))), T_Module)

\* deriveModuleFromPath
deriveModuleFromPath(segs, collectionName) ==
  LET i == anchorIndex(segs)
  IN  IF i > 0 /\ i + 2 <= Len(segs) /\ segs[i + 2] # << >> THEN segs[i + 2]
      ELSE moduleFromCollection(collectionName)

\* TITLE = titleArg || "Digital API Automation"
T_Title == <<"D","i","g","i","t","a","l"," ","A","P","I"," ","A","u","t","o","m","a","t","i","o","n">>
titleOf(titleArg) == OrText(titleArg, T_Title)

\* SLA_MS = Number.isFinite(parseInt(slaArg, 10)) ? parseInt(slaArg, 10) : 1000
DefaultSla == 1000
slaOf(slaArg) == IF slaArg = << >> THEN DefaultSla ELSE slaArg[1]

(***************************************************************************)
(* make-suite-report.js: the rendered document (lines 284-543).            *)
(* The document is the text of its data-bearing markup in document order:  *)
(* identity metadata, title, KPI tiles, the folder table, the folder-wise  *)
(* details and the suite-apis registry.  Style sheet, static headings,     *)
(* the chart script and the modal carry no run data.                       *)
(***************************************************************************)
H_metaParent == <<"<","m","e","t","a"," ","n","a","m","e","=","\"","s","u","i","t","e","-","p","a","r","e","n","t","\""," ","c","o","n","t","e","n","t","=","\"">>
H_metaModule == <<"<","m","e","t","a"," ","n","a","m","e","=","\"","s","u","i","t","e","-","m","o","d","u","l","e","\""," ","c","o","n","t","e","n","t","=","\"">>
H_metaEnd    == <<"\"","/",">">>
H_title      == <<"<","t","i","t","l","e",">">>
H_titleEnd   == <<"<","/","t","i","t","l","e",">">>
H_kpi        == <<"<","d","i","v"," ","c","l","a","s","s","=","\"","k","p","i","\"",">","<","b",">">>
H_kpiEnd     == <<"<","/","b",">","<","/","d","i","v",">">>
H_payloadReq == <<"<","s","c","r","i","p","t"," ","t","y","p","e","=","\"","a","p","p","l","i","c","a","t","i","o","n","/","j","s","o","n","\""," ","i","d","=","\"","p","a","y","l","o","a","d","-","r","e","q","-">>
H_payloadRes == <<"<","s","c","r","i","p","t"," ","t","y","p","e","=","\"","a","p","p","l","i","c","a","t","i","o","n","/","j","s","o","n","\""," ","i","d","=","\"","p","a","y","l","o","a","d","-","r","e","s","-">>
H_tagEnd     == <<"\"",">">>
H_scriptEnd  == <<"<","/","s","c","r","i","p","t",">">>
H_suiteApis  == <<"<","s","c","r","i","p","t"," ","t","y","p","e","=","\"","a","p","p","l","i","c","a","t","i","o","n","/","j","s","o","n","\""," ","i","d","=","\"","s","u","i","t","e","-","a","p","i","s","\"",">">>
H_scriptOpen == <<"<","s","c","r","i","p","t">>
H_idAttr     == <<"i","d","=">>
H_suiteId    == <<"s","u","i","t","e","-","a","p","i","s">>

\* lines 290-292
headSeg(parent, module, title) ==
  H_metaParent \o esc(parent) \o H_metaEnd \o
  H_metaModule \o esc(module) \o H_metaEnd \o
  H_title \o esc(title) \o H_titleEnd

\* lines 299-305
kpiSeg(st, sla) ==
  H_kpi \o fmt(st.passPct) \o <<"%">> \o H_kpiEnd \o
  H_kpi \o fmt(st.totalCases) \o H_kpiEnd \o
  H_kpi \o fmt(st.passedCases) \o H_kpiEnd \o
  H_kpi \o fmt(st.failedCases) \o H_kpiEnd \o
  H_kpi \o fmt(st.withinPct) \o <<"%">> \o <<" ">> \o fmt(sla) \o H_kpiEnd

\* Buffer.from(JSON.stringify(obj)).toString('base64'): characters of the
\* base64 alphabet only; the text for the empty snapshot stands for all
B64 == <<"e","3","0","=">>

\* lines 380-381
payloadSeg(tc) ==
  H_payloadReq \o tc.id \o H_tagEnd \o B64 \o H_scriptEnd \o
  H_payloadRes \o tc.id \o H_tagEnd \o B64 \o H_scriptEnd

\* Array.prototype.sort((a,b) => a.iteration - b.iteration), stable
SortByIteration(cases) ==
  LET before(j, i) == \/ cases[j].iteration < cases[i].iteration
                      \/ cases[j].iteration = cases[i].iteration /\ j < i
      pos(i) == 1 + Cardinality({ j \in DOMAIN cases : before(j, i) })
  IN  [p \in 1..Len(cases) |-> cases[CHOOSE i \in DOMAIN cases : pos(i) = p]]

H_detFolder    == <<"<","d","e","t","a","i","l","s"," ","i","d","=","\"","f","o","l","d","e","r","-">>
H_detSum       == <<"\"",">","<","s","u","m","m","a","r","y",">","<","b",">">>
H_dash         == <<"<","/","b",">"," ","-","-"," ">>
H_apisEnd      == <<" ","A","P","I","(","s",")","<","/","s","u","m","m","a","r","y",">">>
H_detApi       == <<"<","d","e","t","a","i","l","s"," ","i","d","=","\"","a","p","i","-">>
H_detApiSum    == <<"\""," ","s","t","y","l","e","=","\"","m","a","r","g","i","n",":","8","p","x"," ","1","2","p","x","\"",">","<","s","u","m","m","a","r","y",">","<","b",">">>
H_casesEnd     == <<" ","c","a","s","e","(","s",")"," ","."," ","<","s","p","a","n"," ","c","l","a","s","s","=","\"","b","a","d","g","e"," ","p","a","s","s","\"",">">>
H_badgeFail    == <<"<","/","s","p","a","n",">"," ","<","s","p","a","n"," ","c","l","a","s","s","=","\"","b","a","d","g","e"," ","f","a","i","l","\"",">">>
H_sumEnd       == <<"<","/","s","p","a","n",">","<","/","s","u","m","m","a","r","y",">">>
H_block        == <<"<","d","i","v"," ","c","l","a","s","s","=","\"","b","l","o","c","k","\""," ","i","d","=","\"">>
H_blockBadge   == <<"\"",">","<","d","i","v",">","<","s","p","a","n"," ","c","l","a","s","s","=","\"","b","a","d","g","e"," ">>
H_caseName     == <<"<","/","s","p","a","n",">"," ","<","b",">">>
H_caseNameEnd  == <<"<","/","b",">"," ">>
H_status       == <<"."," ","<","b",">","S","t","a","t","u","s",":","<","/","b",">"," ">>
H_resp         == <<"."," ","<","b",">","R","e","s","p",":","<","/","b",">"," ">>
H_ms           == <<" ","m","s"," ">>
H_btnReq       == <<"<","b","u","t","t","o","n"," ","c","l","a","s","s","=","\"","b","t","n","-","m","i","n","i","\""," ","d","a","t","a","-","o","p","e","n","=","\"","r","e","q","\""," ","d","a","t","a","-","f","o","r","=","\"">>
H_btnReqEnd    == <<"\"",">","V","i","e","w"," ","R","e","q","u","e","s","t","<","/","b","u","t","t","o","n",">">>
H_btnRes       == <<" ","<","b","u","t","t","o","n"," ","c","l","a","s","s","=","\"","b","t","n","-","m","i","n","i","\""," ","d","a","t","a","-","o","p","e","n","=","\"","r","e","s","\""," ","d","a","t","a","-","f","o","r","=","\"">>
H_btnResEnd    == <<"\"",">","V","i","e","w"," ","R","e","s","p","o","n","s","e","<","/","b","u","t","t","o","n",">","<","/","d","i","v",">">>
H_checks       == <<"<","d","i","v",">","<","b",">","C","h","e","c","k","s",":","<","/","b",">"," ">>
H_divEnd       == <<"<","/","d","i","v",">">>
H_chkHead      == <<"<","t","a","b","l","e"," ","c","l","a","s","s","=","\"","c","h","e","c","k","s","\"",">","<","t","h","e","a","d",">","<","t","r",">","<","t","h",">","#","<","/","t","h",">","<","t","h",">","A","s","s","e","r","t","i","o","n","<","/","t","h",">","<","t","h",">","S","t","a","t","u","s","<","/","t","h",">","<","t","h",">","M","e","s","s","a","g","e","<","/","t","h",">","<","/","t","r",">","<","/","t","h","e","a","d",">","<","t","b","o","d","y",">">>
H_chkRow       == <<"<","t","r"," ","c","l","a","s","s","=","\"">>
H_chkCell1     == <<"\"",">","<","t","d",">">>
H_chkCell      == <<"<","/","t","d",">","<","t","d",">">>
H_chkRowEnd    == <<"<","/","t","d",">","<","/","t","r",">">>
H_chkFoot      == <<"<","/","t","b","o","d","y",">","<","/","t","a","b","l","e",">">>
H_noChecks     == <<"<","d","i","v"," ","c","l","a","s","s","=","\"","m","u","t","e","d","\"",">","-","-"," ","n","o"," ","a","s","s","e","r","t","i","o","n","s"," ","-","-","<","/","d","i","v",">">>
H_detEnd       == <<"<","/","d","e","t","a","i","l","s",">">>
H_noFolders    == <<"<","d","i","v"," ","c","l","a","s","s","=","\"","m","u","t","e","d","\"",">","N","o"," ","f","o","l","d","e","r","s"," ","f","o","u","n","d",".","<","/","d","i","v",">">>

\* line 386: one row of the checks table
checkRowSeg(c, i) ==
  H_chkRow \o (IF c.ok THEN <<"o","k">> ELSE <<"n","g">>) \o H_chkCell1 \o NatToStr(i) \o
  H_chkCell \o esc(c.name) \o
  H_chkCell \o (IF c.ok THEN <<"P","A","S","S">> ELSE <<"F","A","I","L">>) \o
  H_chkCell \o esc(IF c.ok THEN T_OK ELSE c.message) \o H_chkRowEnd

\* lines 371-390: the block of one case
\* (the dash and the dot of the template are written -- and .)
caseSeg(tc, apiName) ==
  H_block \o tc.id \o H_blockBadge \o
  (IF tc.result = "Pass" THEN <<"p","a","s","s">> ELSE <<"f","a","i","l">>) \o H_tagEnd \o
  (IF tc.result = "Pass" THEN <<"P","A","S","S">> ELSE <<"F","A","I","L">>) \o
  H_caseName \o tc.tcId \o <<"-">> \o esc(pretty(apiName)) \o H_caseNameEnd \o
  (IF tc.statusCode # << >> /\ tc.statusCode[1] # 0
   THEN H_status \o NatToStr(tc.statusCode[1]) \o <<" ">> ELSE << >>) \o
  (IF tc.respMs # << >> THEN H_resp \o fmt(tc.respMs[1]) \o H_ms ELSE << >>) \o
  H_btnReq \o tc.id \o H_btnReqEnd \o H_btnRes \o tc.id \o H_btnResEnd \o
  payloadSeg(tc) \o
  H_checks \o fmt(tc.checksPassed) \o <<" ","/"," ">> \o fmt(tc.checksTotal) \o H_divEnd \o
  (IF tc.checks # << >>
   THEN H_chkHead \o Concat([i \in 1..Len(tc.checks) |-> checkRowSeg(tc.checks[i], i)])
        \o H_chkFoot
   ELSE H_noChecks) \o
  H_divEnd

\* lines 361-393: the details element of one API of a folder
apiDetailsSeg(fr, apiName) ==
  LET isA(tc) == tc.api = apiName
      cases   == SortByIteration(SelectSeq(fr.apis, isA))
  IN  H_detApi \o idfy(fr.group \o <<"-">> \o apiName) \o H_detApiSum \o
      esc(pretty(apiName)) \o H_dash \o NatToStr(Len(cases)) \o H_casesEnd \o
      NatToStr(Len(SelectSeq(cases, isPass))) \o H_badgeFail \o
      NatToStr(Len(SelectSeq(cases, isFail))) \o H_sumEnd \o
      Concat([i \in 1..Len(cases) |-> caseSeg(cases[i], apiName)]) \o
      H_detEnd

\* lines 355-396: the details element of one folder, its APIs sorted by
\* display name
folderDetailsSeg(fr) ==
  LET names  == DistinctInOrder([i \in 1..Len(fr.apis) |-> fr.apis[i].api])
      sorted == SortByPretty([i \in 1..Len(names) |->
                                [api |-> names[i], pretty |-> pretty(names[i])]])
  IN  H_detFolder \o idfy(fr.group) \o H_detSum \o esc(pretty(fr.group)) \o H_dash \o
      NatToStr(Len(sorted)) \o H_apisEnd \o
      Concat([i \in 1..Len(sorted) |-> apiDetailsSeg(fr, sorted[i].api)]) \o
      H_detEnd

\* lines 353-399
detailsSeg(rows) ==
  IF rows = << >> THEN H_noFolders
  ELSE Concat([i \in 1..Len(rows) |-> folderDetailsSeg(rows[i])])

H_tblHead    == <<"<","t","a","b","l","e"," ","i","d","=","\"","t","b","l","\"",">","\n"," ","<","t","h","e","a","d",">","\n"," ","<","t","r",">","\n"," ","<","t","h",">","F","o","l","d","e","r","<","/","t","h",">","\n"," ","<","t","h",">","P","a","s","s","e","d","<","/","t","h",">","\n"," ","<","t","h",">","F","a","i","l","e","d","<","/","t","h",">","\n"," ","<","t","h",">","T","o","t","a","l","<","/","t","h",">","\n"," ","<","t","h",">","P","a","s","s"," ","%","<","/","t","h",">","\n"," ","<","t","h",">","A","v","g"," ","R","e","s","p"," ","(","m","s",")","<","/","t","h",">","\n"," ","<","/","t","r",">","\n"," ","<","/","t","h","e","a","d",">","\n"," ","<","t","b","o","d","y",">">>
H_rowOpen    == <<"\n"," ","<","t","r"," ","c","l","a","s","s","=","\"","c","l","i","c","k","a","b","l","e","\""," ","d","a","t","a","-","r","o","w","=","\"">>
H_rowFolder  == <<"\""," ","d","a","t","a","-","f","o","l","d","e","r","=","\"">>
H_rowCell1   == <<"\"",">","\n"," ","<","t","d",">">>
H_badge      == <<" ","<","s","p","a","n"," ","c","l","a","s","s","=","\"","b","a","d","g","e","\"",">">>
H_rowPass    == <<"<","/","s","p","a","n",">","<","/","t","d",">","\n"," ","<","t","d",">","<","s","p","a","n"," ","c","l","a","s","s","=","\"","b","a","d","g","e"," ","p","a","s","s","\"",">">>
H_rowFail    == <<"<","/","s","p","a","n",">","<","/","t","d",">","\n"," ","<","t","d",">","<","s","p","a","n"," ","c","l","a","s","s","=","\"","b","a","d","g","e"," ","f","a","i","l","\"",">">>
H_rowTotal   == <<"<","/","s","p","a","n",">","<","/","t","d",">","\n"," ","<","t","d",">">>
H_cellSep    == <<"<","/","t","d",">","\n"," ","<","t","d",">">>
H_pctSep     == <<"%","<","/","t","d",">","\n"," ","<","t","d",">">>
H_rowEnd     == <<"<","/","t","d",">","\n"," ","<","/","t","r",">">>
H_subOpen    == <<"\n"," ","<","t","r"," ","c","l","a","s","s","=","\"","s","u","b","r","o","w","\""," ","i","d","=","\"","s","u","b","-">>
H_subMid     == <<"\""," ","s","t","y","l","e","=","\"","d","i","s","p","l","a","y",":","n","o","n","e","\"",">","\n"," ","<","t","d"," ","c","o","l","s","p","a","n","=","\"","6","\"",">","\n"," ","<","d","i","v"," ","c","l","a","s","s","=","\"","e","x","p","a","n","d","-","c","a","r","d","\""," ","i","d","=","\"","b","o","x","-">>
H_subEnd     == <<"\"",">","\n"," ","<","s","p","a","n"," ","c","l","a","s","s","=","\"","m","u","t","e","d","\"",">","L","o","a","d","i","n","g",".",".",".","<","/","s","p","a","n",">","\n"," ","<","/","d","i","v",">","\n"," ","<","/","t","d",">","\n"," ","<","/","t","r",">">>
H_tblEnd     == <<"\n"," ","<","/","t","b","o","d","y",">","\n"," ","<","/","t","a","b","l","e",">">>
H_folderId   == <<"f","o","l","d","e","r","-">>

\* lines 329-345: the summary row of one folder and its hidden sub-row
\* (a run of indentation blanks of the template is written as one blank)
rowSeg(r) ==
  LET fid == H_folderId \o idfy(r.group) IN
  H_rowOpen \o fid \o H_rowFolder \o esc(r.group) \o H_rowCell1 \o
  esc(r.pretty) \o H_badge \o NatToStr(Len(r.apis)) \o
  H_rowPass \o fmt(r.pass) \o
  H_rowFail \o fmt(r.fail) \o
  H_rowTotal \o fmt(r.total) \o
  H_cellSep \o fmt(r.passPct) \o
  H_pctSep \o fmt(r.avgMs) \o H_rowEnd \o
  H_subOpen \o fid \o H_subMid \o fid \o H_subEnd

\* lines 316-348: the folder table
tableSeg(rows) ==
  H_tblHead \o Concat([i \in 1..Len(rows) |-> rowSeg(rows[i])]) \o H_tblEnd

\* line 403
registrySeg(apis) == H_suiteApis \o JsonStringify(apis) \o H_scriptEnd

\* the template literal of lines 284-543
renderHtml(parent, module, title, st, sla, rows, apis) ==
  headSeg(parent, module, title) \o kpiSeg(st, sla) \o tableSeg(rows) \o
  detailsSeg(rows) \o registrySeg(apis)

(***************************************************************************)
(* cleanup-temp.js (combine part): extractSuiteApis (lines 118-128)        *)
(***************************************************************************)
\* the match of /<script[^>]*id=["']suite-apis["'][^>]*>([\s\S]*?)<\/script>/i
\* that starts at position p: [ok, from, to] delimit capture group 1
suiteApisMatchAt(html, p) ==
  LET gt  == IndexOf(html, <<">">>, p + Len(H_scriptOpen))
      ids == { j \in (p + Len(H_scriptOpen))..(gt - 1) :
                 /\ StartsAtCI(html, j, H_idAttr)
                 /\ j + 14 < gt
                 /\ html[j + 3] \in {"\"", "'"}
                 /\ StartsAtCI(html, j + 4, H_suiteId)
                 /\ html[j + 14] \in {"\"", "'"} }
      end == IF gt = 0 THEN 0 ELSE IndexOfCI(html, H_scriptEnd, gt + 1)
  IN  [ ok   |-> StartsAtCI(html, p, H_scriptOpen) /\ gt > 0 /\ ids # {} /\ end > 0,
        from |-> gt + 1,
        to   |-> end - 1 ]

\* the match that starts at p, no match for p = 0
suiteApisMatchFrom(html, p) ==
  IF p = 0 THEN [ok |-> FALSE, from |-> 1, to |-> 0] ELSE suiteApisMatchAt(html, p)

\* htmlText.match(...): the leftmost match
suiteApisMatch(html) ==
  suiteApisMatchFrom(html,
    LET starts == { p \in 1..Len(html) : /\ html[p] = "<"
                                         /\ StartsAtCI(html, p, H_scriptOpen)
                                         /\ suiteApisMatchAt(html, p).ok }
    IN  IF starts = {} THEN 0 ELSE CHOOSE p \in starts : \A q \in starts : p <= q)

\* lines 122-124: the parsed list, its entries trimmed, empty ones dropped
apisOfParsed(parsed) ==
  IF ~parsed.ok THEN << >>
  ELSE LET trimmed == [i \in 1..Len(parsed.val) |-> Trim(parsed.val[i])]
       IN  KeepIdx(trimmed, { i \in DOMAIN trimmed : trimmed[i] # << >> }, 1)

\* lines 120-127 for the match m
apisOfMatch(html, m) ==
  IF ~m.ok THEN << >> ELSE apisOfParsed(JsonParseArray(SubSeq(html, m.from, m.to)))

\* extractSuiteApis(htmlText)
extractSuiteApis(html) == apisOfMatch(html, suiteApisMatch(html))

(***************************************************************************)
(* cleanup-temp.js (combine part): regular-expression steps.               *)
(* A step takes the text and a position and gives the position after its   *)
(* match, 0 when it does not match (or when the position is already 0).    *)
(***************************************************************************)
R_tr       == <<"<","t","r">>
R_td       == <<"<","t","d",">">>
R_tdOpen   == <<"<","t","d">>
R_tdEnd    == <<"<","/","t","d",">">>
R_span     == <<"<","s","p","a","n">>
R_spanEnd  == <<"<","/","s","p","a","n",">">>
R_trEnd    == <<"<","/","t","r",">">>
R_class    == <<"c","l","a","s","s","=">>
R_badge    == <<"b","a","d","g","e">>

\* characters that . does not match
IsLineEnd(c) == c \in {"\n", "\r"}

SpaceSet == {" ", "\t", "\n", "\r"}
NumSet   == DigitSet \cup {",", "."}

\* the least element of a set of positions, 0 for the empty set
MinOr0(S) == IF S = {} THEN 0 ELSE CHOOSE i \in S : \A j \in S : i <= j

RECURSIVE reWhile(_, _, _)
\* [C]* : the first position >= i whose character is not in C
\* (the text is scanned in stretches of 32 characters)
reWhile(t, i, C) ==
  IF i > Len(t) THEN i
  ELSE LET hi  == IF i + 31 < Len(t) THEN i + 31 ELSE Len(t)
           out == { j \in i..hi : t[j] \notin C }
       IN  IF out # {} THEN MinOr0(out) ELSE reWhile(t, hi + 1, C)

RECURSIVE reUntil(_, _, _)
\* the first position >= i whose character is in C, 0 when there is none
reUntil(t, i, C) ==
  IF i > Len(t) THEN 0
  ELSE LET hi   == IF i + 31 < Len(t) THEN i + 31 ELSE Len(t)
           hits == { j \in i..hi : t[j] \in C }
       IN  IF hits # {} THEN MinOr0(hits) ELSE reUntil(t, hi + 1, C)

\* a literal, letter case ignored
reLit(t, i, pat) == IF i > 0 /\ StartsAtCI(t, i, pat) THEN i + Len(pat) ELSE 0
\* (?:literal)?
reOpt(t, i, pat) == IF i > 0 /\ StartsAtCI(t, i, pat) THEN i + Len(pat) ELSE i
\* \s*
reSpaces(t, i) == IF i = 0 THEN 0 ELSE reWhile(t, i, SpaceSet)
\* [^>]*>
reToGt(t, i) ==
  IF i = 0 THEN 0
  ELSE LET g == reUntil(t, i, {">"}) IN IF g = 0 THEN 0 ELSE g + 1
\* \d+
reDigits(t, i) ==
  IF i = 0 \/ i > Len(t) THEN 0
  ELSE IF ~IsDigit(t[i]) THEN 0 ELSE reWhile(t, i, DigitSet)
\* (?:<span[^>]*>)?
reOptSpan(t, i) ==
  IF i = 0 THEN 0
  ELSE LET e == reToGt(t, reLit(t, i, R_span)) IN IF e # 0 THEN e ELSE i

RECURSIVE StrToNat(_)
\* Number(text) for a text of decimal digits
StrToNat(s) ==
  IF s = << >> THEN 0
  ELSE 10 * StrToNat(SubSeq(s, 1, Len(s) - 1)) +
       ((CHOOSE d \in DOMAIN Digits : Digits[d] = s[Len(s)]) - 1)

\* Number(text) for a text matched by \d+(?:\.\d+)? or [\d.]+ : the integer
\* when the text is all digits; any other text stands for its own
\* (non-integer or NaN) value
NumberOf(s) == IF \A i \in DOMAIN s : IsDigit(s[i]) THEN StrToNat(s) ELSE s

(***************************************************************************)
(* cleanup-temp.js (combine part): extractParent / extractModule           *)
(* (lines 112-117)                                                         *)
(***************************************************************************)
\* (htmlText.match(/<meta name="..." content="([^"]+)"/i) || [])[1] || dflt
metaContent(html, open, dflt) ==
  LET ok(p) == LET a == reLit(html, p, open)
               IN  /\ a # 0
                   /\ a <= Len(html) /\ html[a] # "\""
                   /\ reUntil(html, a, {"\""}) # 0
      p0 == MinOr0({ p \in 1..Len(html) : ok(p) })
  IN  IF p0 = 0 THEN dflt
      ELSE LET a == p0 + Len(open)
           IN  SubSeq(html, a, reUntil(html, a, {"\""}) - 1)

extractParent(html) == metaContent(html, H_metaParent, T_Parent)
extractModule(html) == metaContent(html, H_metaModule, T_Module)

(***************************************************************************)
(* cleanup-temp.js (combine part): parseSuiteRows (lines 131-156)          *)
(***************************************************************************)
\* <td[^>]*>(?:<span[^>]*>)?(\d+)(?:<\/span>)?<\/td>
tdCount(t, i) ==
  LET a == reOptSpan(t, reToGt(t, reLit(t, i, R_tdOpen)))
      b == reDigits(t, a)
      e == reLit(t, reOpt(t, b, R_spanEnd), R_tdEnd)
  IN  [ next |-> e, from |-> a, to |-> b - 1 ]

\* <td[^>]*>(\d+)<\/td>
tdTotal(t, i) ==
  LET a == reToGt(t, reLit(t, i, R_tdOpen))
      b == reDigits(t, a)
  IN  [ next |-> reLit(t, b, R_tdEnd), from |-> a, to |-> b - 1 ]

\* <td[^>]*>(\d+(?:\.\d+)?)\s*%?\s*<\/td>
tdPct(t, i) ==
  LET a == reToGt(t, reLit(t, i, R_tdOpen))
      b == reDigits(t, a)
      f == reDigits(t, reLit(t, b, <<".">>))
      c == IF f # 0 THEN f ELSE b
      e == reLit(t, reSpaces(t, reOpt(t, reSpaces(t, c), <<"%">>)), R_tdEnd)
  IN  [ next |-> e, from |-> a, to |-> c - 1 ]

\* <td[^>]*>([\d,\.]+)\s*<\/td>
tdAvg(t, i) ==
  LET a == reToGt(t, reLit(t, i, R_tdOpen))
      b == IF a = 0 \/ a > Len(t) THEN 0
           ELSE IF t[a] \notin NumSet THEN 0 ELSE reWhile(t, a, NumSet)
  IN  [ next |-> reLit(t, reSpaces(t, b), R_tdEnd), from |-> a, to |-> b - 1 ]

\* the cell pattern of capture group k + 1
tdOf(k, t, i) ==
  IF k <= 2 THEN tdCount(t, i)
  ELSE IF k = 3 THEN tdTotal(t, i)
  ELSE IF k = 4 THEN tdPct(t, i) ELSE tdAvg(t, i)

RECURSIVE tdCells(_, _, _)
RECURSIVE tdCellsAfter(_, _, _)
\* the cells of groups k + 1 .. 6 matched from position i on, each followed
\* by \s*
tdCells(t, i, k) == IF k > 5 THEN << >> ELSE tdCellsAfter(t, tdOf(k, t, i), k)
tdCellsAfter(t, c, k) == << c >> \o tdCells(t, reSpaces(t, c.next), k + 1)

rowRestOf(t, cs) ==
  [ next |-> reLit(t, reSpaces(t, cs[5].next), R_trEnd),
    c2 |-> cs[1], c3 |-> cs[2], c4 |-> cs[3], c5 |-> cs[4], c6 |-> cs[5] ]

\* the part of the row pattern after capture group 1, matched at position j
rowRest(t, j) == rowRestOf(t, tdCells(t, reSpaces(t, reLit(t, j, R_tdEnd)), 1))

\* the end of the line of position a
lineEnd(t, a) ==
  LET n == reUntil(t, a, {"\n", "\r"}) IN IF n = 0 THEN Len(t) + 1 ELSE n

\* (.*?) takes the fewest characters of the line that let the rest match:
\* the position after them, 0 when the rest matches nowhere on the line
cellEndAt(t, a, eol) ==
  MinOr0({ k \in a..eol : /\ k <= Len(t)
                          /\ t[k] = "<"
                          /\ StartsAtCI(t, k, R_tdEnd)
                          /\ rowRest(t, k).next # 0 })

rowMatchTo(t, a, j) ==
  [ ok |-> j # 0, cell |-> [from |-> a, to |-> j - 1],
    rest |-> IF j # 0 THEN rowRest(t, j) ELSE [next |-> 0] ]

rowMatchFrom(t, a) ==
  rowMatchTo(t, a, IF a = 0 THEN 0 ELSE cellEndAt(t, a, lineEnd(t, a)))

\* the match of the row pattern that starts at position p:
\* <tr[^>]*>\s*<td>(.*?) followed by the rest
rowMatchAt(t, p) ==
  rowMatchFrom(t, reLit(t, reSpaces(t, reToGt(t, reLit(t, p, R_tr))), R_td))

\* the match of
\* /<span[^>]*class=["'][^"']*badge[^"']*["'][^>]*>.*?<\/span>/i at position p:
\* the position after it, 0 when there is none
badgeSpanAt(t, p) ==
  LET s   == reLit(t, p, R_span)
      gt  == IF s = 0 THEN 0 ELSE reUntil(t, s, {">"})
      lim == IF gt = 0 THEN Len(t) ELSE gt - 1
      endOf(k) ==
        LET q0 == reLit(t, k, R_class)
            q  == IF q0 = 0 \/ q0 > Len(t) THEN 0
                  ELSE IF t[q0] \in {"\"", "'"} THEN reUntil(t, q0 + 1, {"\"", "'"}) ELSE 0
            has == q # 0 /\ \E b \in (q0 + 1)..(q - 5) : StartsAtCI(t, b, R_badge)
            g  == IF has THEN reToGt(t, q + 1) ELSE 0
            c  == IF g = 0 THEN 0 ELSE IndexOfCI(t, R_spanEnd, g)
        IN  IF c # 0 /\ \A x \in g..(c - 1) : ~IsLineEnd(t[x]) THEN c + Len(R_spanEnd) ELSE 0
      ks  == IF s = 0 THEN {} ELSE { k \in s..lim : endOf(k) # 0 }
  IN  IF ks = {} THEN 0 ELSE endOf(CHOOSE k \in ks : \A x \in ks : k >= x)

RECURSIVE stripBadges(_, _)
\* cell.replace(/<span ... badge ... >.*?<\/span>/gi, "") from position i on
stripBadges(t, i) ==
  IF i > Len(t) THEN << >>
  ELSE LET e == badgeSpanAt(t, i)
       IN  IF e # 0 THEN stripBadges(t, e) ELSE << t[i] >> \o stripBadges(t, i + 1)

RECURSIVE stripTags(_, _)
\* text.replace(/<[^>]*>/g, "") from position i on
stripTags(t, i) ==
  IF i > Len(t) THEN << >>
  ELSE LET e == IF t[i] = "<" THEN reToGt(t, i + 1) ELSE 0
       IN  IF e # 0 THEN stripTags(t, e) ELSE << t[i] >> \o stripTags(t, i + 1)

\* api.replace(/\s+\d+$/, "")
stripCounter(s) ==
  LET nonDig == { i \in DOMAIN s : ~IsDigit(s[i]) }
      d      == IF nonDig = {} THEN 0 ELSE CHOOSE i \in nonDig : \A j \in nonDig : i >= j
      nonSp  == { i \in 1..d : ~IsSpace(s[i]) }
      w      == IF nonSp = {} THEN 0 ELSE CHOOSE i \in nonSp : \A j \in nonSp : i >= j
  IN  IF d < Len(s) /\ d >= 1 /\ IsSpace(s[d]) THEN SubSeq(s, 1, w) ELSE s

\* lines 140-142: the name of the first cell
cellName(cell) == stripCounter(Trim(stripTags(stripBadges(cell, 1), 1)))

\* lines 144-153: the row of one match
rowOfMatch(t, m, parent, module) ==
  LET cap(c) == SubSeq(t, c.from, c.to)
      noComma(s) == SelectSeq(s, LAMBDA ch : ch # ",")
  IN  [ parent  |-> parent,
        module  |-> module,
        api     |-> cellName(SubSeq(t, m.cell.from, m.cell.to)),
        pass    |-> StrToNat(cap(m.rest.c2)),
        fail    |-> StrToNat(cap(m.rest.c3)),
        total   |-> StrToNat(cap(m.rest.c4)),
        passPct |-> NumberOf(cap(m.rest.c5)),
        avg     |-> NumberOf(noComma(cap(m.rest.c6))) ]

RECURSIVE execRows(_, _, _, _)
RECURSIVE rowsFromMatch(_, _, _, _)
\* the loop  while ((m = re.exec(htmlText)))  from lastIndex i on
execRows(t, i, parent, module) ==
  rowsFromMatch(t, MinOr0({ q \in i..(Len(t) - 2) : /\ t[q] = "<"
                                                    /\ StartsAtCI(t, q, R_tr)
                                                    /\ rowMatchAt(t, q).ok }),
                parent, module)

\* the row of the match at p and the rows of the later matches
rowsAfter(t, m, parent, module) ==
  << rowOfMatch(t, m, parent, module) >> \o execRows(t, m.rest.next, parent, module)

rowsFromMatch(t, p, parent, module) ==
  IF p = 0 THEN << >> ELSE rowsAfter(t, rowMatchAt(t, p), parent, module)

\* parseSuiteRows(htmlText)
parseSuiteRows(html) == execRows(html, 1, extractParent(html), extractModule(html))

(***************************************************************************)
(* cleanup-temp.js (combine part): detectSoftFailApis (lines 170-205)      *)
(***************************************************************************)
R_summary      == <<"<","s","u","m","m","a","r","y">>
R_b            == <<"<","b",">">>
R_bEnd         == <<"<","/","b",">">>
R_summaryEnd   == <<"<","/","s","u","m","m","a","r","y",">">>
R_details      == <<"<","d","e","t","a","i","l","s">>
R_detailsEnd   == <<"<","/","d","e","t","a","i","l","s",">">>
R_arrow        == <<"-","-",">">>
R_arrowEsc     == <<"-","-","&","g","t",";">>
R_Failing      == <<"F","a","i","l","i","n","g">>
T_softStyle    == <<" ","s","t","y","l","e","=","\"","b","a","c","k","g","r","o","u","n","d",":","#","F","F","F","7","C","2","\"">>
T_EmailReports == <<"E","m","a","i","l","R","e","p","o","r","t","s">>
T_finalName    == <<"D","i","g","i","t","a","l"," ","A","p","i"," ","A","u","t","o","m","a","t","i","o","n"," ","R","e","p","o","r","t",".","h","t","m","l">>
T_emailName    == <<"E","m","a","i","l","B","o","d","y",".","h","t","m","l">>
T_inlineName   == <<"E","m","a","i","l","B","o","d","y","_","I","n","l","i","n","e",".","h","t","m","l">>

\* the window of line 188 / 199
SoftWindow == 30000

\* SOFT.test(text.slice(...)) on the positions from..to of t:
\* /(\+\s*-->\s*Failing|\+\s*--&gt;\s*Failing)/i
softIn(t, from, to) ==
  \E q \in from..to :
     /\ t[q] = "+"
     /\ LET a == reSpaces(t, q + 1)
            b == IF StartsAt(t, a, R_arrow) THEN a + Len(R_arrow)
                 ELSE reLit(t, a, R_arrowEsc)
            d == reLit(t, reSpaces(t, b), R_Failing)
        IN  d # 0 /\ d - 1 <= to

\* the match of <summary[^>]*>\s*<b>\s*API\s*<\/b>[\s\S]*?<\/summary> (flag i)
\* at position p
apiSummaryAt(t, p, api) ==
  LET h == reLit(t, reSpaces(t, reLit(t, reSpaces(t, reLit(t, reSpaces(t,
             reToGt(t, reLit(t, p, R_summary))), R_b)), api)), R_bEnd)
  IN  h # 0 /\ IndexOfCI(t, R_summaryEnd, h) # 0

\* the last position of pat at or before i, 0 when there is none
LastIndexOf(t, pat, i) ==
  LET hits == { q \in 1..i : t[q] = pat[1] /\ StartsAt(t, q, pat) }
  IN  IF hits = {} THEN 0 ELSE CHOOSE q \in hits : \A j \in hits : q >= j

\* Math.min(htmlText.length, i + 30000) as the last position of the slice
windowEnd(t, i) == IF i + SoftWindow - 1 < Len(t) THEN i + SoftWindow - 1 ELSE Len(t)

\* lines 185-190: the window after the first <b>api</b>, letter case ignored
softNearName(t, roughIdx) == roughIdx # 0 /\ softIn(t, roughIdx, windowEnd(t, roughIdx))

\* lines 196-201: the section around the summary at startIdx
softInSection(t, startIdx, prevDetailsIdx, endDetailsIdx) ==
  softIn(t, IF prevDetailsIdx # 0 THEN prevDetailsIdx ELSE startIdx,
            IF endDetailsIdx # 0 THEN endDetailsIdx - 1 ELSE windowEnd(t, startIdx))

softAround(t, api, startIdx) ==
  IF startIdx = 0
  THEN softNearName(t, IndexOf(LowerStr(t), R_b \o LowerStr(api) \o R_bEnd, 1))
  ELSE softInSection(t, startIdx, LastIndexOf(t, R_details, startIdx),
                     IndexOf(t, R_detailsEnd, startIdx))

\* lines 180-201 for one API name
isSoftApi(t, api) ==
  softAround(t, api, MinOr0({ p \in 1..Len(t) : t[p] = "<" /\ apiSummaryAt(t, p, api) }))

\* Array.from(new Set(rows.map(r => r.api).filter(Boolean)))
rowApis(rows) ==
  LET names == [i \in 1..Len(rows) |-> rows[i].api]
  IN  DistinctInOrder(SelectSeq(names, LAMBDA n : n # << >>))

\* apis.length ? apis : <the names of the rows>
apiListOf(apis, rows) == IF apis # << >> THEN apis ELSE rowApis(rows)

\* lines 177-202: the names of apiList that are flagged
flaggedIn(html, apiList) ==
  { apiList[i] : i \in { j \in DOMAIN apiList :
                           apiList[j] # << >> /\ isSoftApi(html, apiList[j]) } }

\* detectSoftFailApis(htmlText, fallbackRows): the flagged names
detectSoftFailApis(html, fallbackRows) ==
  flaggedIn(html, apiListOf(extractSuiteApis(html), fallbackRows))

(***************************************************************************)
(* cleanup-temp.js (combine part): aggregation (lines 94, 208-234)         *)
(***************************************************************************)
RECURSIVE Gcd(_, _)
Gcd(a, b) == IF b = 0 THEN a ELSE Gcd(b, a % b)

\* the fractions num/den (in lowest terms, up to 2) whose product
\* (num / den) * 100 in IEEE-754 double arithmetic falls just below the
\* half-integer it stands for, so that Math.round gives the lower integer
HalfRoundsDown ==
  { <<23, 40>>, <<41, 40>>, <<51, 40>>, <<29, 200>>, <<57, 200>>, <<113, 200>>,
    <<201, 200>>, <<203, 200>>, <<207, 200>>, <<251, 200>>, <<253, 200>> }

\* Math.round((num / den) * 100) for 0 <= num <= 2 * den, den > 0
RoundPct(num, den) ==
  LET g == Gcd(num, den)
  IN  IF << num \div g, den \div g >> \in HalfRoundsDown
      THEN RoundDiv(100 * num, den) - 1
      ELSE RoundDiv(100 * num, den)

\* pctStr = (num, den) => den > 0 ? Math.round((num / den) * 100) + "%" : "0%"
pctStr(num, den) ==
  (IF den > 0 THEN NatToStr(RoundPct(num, den)) ELSE <<"0">>) \o <<"%">>

\* `${r.parent}|${r.module}|${r.api}`
rowKey(r) == r.parent \o <<"|">> \o r.module \o <<"|">> \o r.api

\* Math.max(0, n)
Max0(n) == IF n > 0 THEN n ELSE 0

\* the key of keyMap (line 211)
apiKey(r) == rowKey(r)

\* lines 209-217: the sums of the rows of one key
keySums(rows, key) ==
  LET mine == SelectSeq(rows, LAMBDA r : apiKey(r) = key)
  IN  [ passSum  |-> SumSeq([i \in 1..Len(mine) |-> mine[i].pass]),
        failSum  |-> SumSeq([i \in 1..Len(mine) |-> mine[i].fail]),
        totalSum |-> SumSeq([i \in 1..Len(mine) |-> mine[i].total]) ]

\* aggregateApiStatsFromRows(rows)
aggregateApiStatsFromRows(rows) ==
  LET keys   == { apiKey(rows[i]) : i \in DOMAIN rows }
      passed == Cardinality({ k \in keys : keySums(rows, k).totalSum > 0
                                           /\ keySums(rows, k).failSum = 0 })
      unique == Cardinality(keys)
  IN  [ unique |-> unique, passed |-> passed, failed |-> Max0(unique - passed),
        rate |-> pctStr(passed, unique) ]

\* aggregateCaseStats(rows)
aggregateCaseStats(rows) ==
  LET pass  == SumSeq([i \in 1..Len(rows) |-> rows[i].pass])
      fail  == SumSeq([i \in 1..Len(rows) |-> rows[i].fail])
      total == SumSeq([i \in 1..Len(rows) |->
                         IF rows[i].total # 0 THEN rows[i].total
                         ELSE rows[i].pass + rows[i].fail])
  IN  [ total |-> total, pass |-> pass, fail |-> fail, rate |-> pctStr(pass, total) ]

(***************************************************************************)
(* cleanup-temp.js (combine part): main (lines 299-545)                    *)
(***************************************************************************)
\* the order of Array.prototype.sort() on strings: UTF-16 code units (the
\* printable characters that occur in the texts of the model)
CodeOrder == <<" ","!","\"","#","$","%","&","'","(",")","*","+",",","-",".","/","0","1","2","3","4","5","6","7","8","9",":",";","<","=",">","?","@","A","B","C","D","E","F","G","H","I","J","K","L","M","N","O","P","Q","R","S","T","U","V","W","X","Y","Z","[","\\","]","^","_","a","b","c","d","e","f","g","h","i","j","k","l","m","n","o","p","q","r","s","t","u","v","w","x","y","z","{","|","}","~">>
CodeRank == [c \in Range(CodeOrder) |-> CHOOSE i \in DOMAIN CodeOrder : CodeOrder[i] = c]
LessCode(a, b) ==
  LET n    == IF Len(a) < Len(b) THEN Len(a) ELSE Len(b)
      diff == { i \in 1..n : a[i] # b[i] }
  IN  IF diff = {} THEN Len(a) < Len(b)
      ELSE LET d == MinOr0(diff) IN CodeRank[a[d]] < CodeRank[b[d]]

\* Object.keys(obj).sort() for the set of keys S
SortedKeys(S) ==
  LET pos(k) == 1 + Cardinality({ x \in S : LessCode(x, k) })
  IN  [p \in 1..Cardinality(S) |-> CHOOSE k \in S : pos(k) = p]

\* /_latest\.html$/i.test(name) || /_\d{8}_\d{6}\.html$/i.test(name)
isSuiteHtmlName(name) ==
  LET n == Len(name) IN
  \/ n >= Len(T_latest) /\ StartsAtCI(name, n - Len(T_latest) + 1, T_latest)
  \/ /\ n >= 21
     /\ name[n - 20] = "_"
     /\ \A i \in (n - 19)..(n - 12) : IsDigit(name[i])
     /\ name[n - 11] = "_"
     /\ \A i \in (n - 10)..(n - 5) : IsDigit(name[i])
     /\ StartsAtCI(name, n - 4, <<".","h","t","m","l">>)

\* findSuiteHtmls(TEMP_ROOT): the suite documents below dir
findSuiteHtmls(fs, dir) ==
  { p \in DOMAIN fs : /\ Len(p) > Len(dir)
                      /\ SubSeq(p, 1, Len(dir)) = dir
                      /\ isSuiteHtmlName(p[Len(p)]) }

\* lines 325-345: what the loop body keeps of one document
scanRecord(rows, parent, softs, apiList) ==
  [ rows     |-> rows,
    parent   |-> parent,
    softKeys |-> { rowKey(rows[i]) : i \in { j \in DOMAIN rows : rows[j].api \in softs } },
    names    |-> { Trim(apiList[i]) : i \in DOMAIN apiList } \ { << >> } ]

\* lines 316-337 for the parsed rows
scanRows(html, rows) ==
  scanRecord(rows, extractParent(html), detectSoftFailApis(html, rows),
             apiListOf(extractSuiteApis(html), rows))

\* lines 314-345: what the loop body takes from one document
scanFile(html) == scanRows(html, parseSuiteRows(html))

\* variant: the registry of a grouping is replaced by the names of each new
\* document instead of growing by them
foldScans_lastWins(scans) ==
  LET parents == { scans[i].parent : i \in DOMAIN scans }
      lastOf(p) == CHOOSE i \in DOMAIN scans :
                     /\ scans[i].parent = p
                     /\ \A j \in DOMAIN scans : scans[j].parent = p => j <= i
  IN  [ allRows        |-> Concat([i \in 1..Len(scans) |-> scans[i].rows]),
        grandUniqueSet |-> UNION { { scans[i].parent \o <<"|">> \o n : n \in scans[i].names } :
                                    i \in DOMAIN scans },
        uniqueByParent |-> [ p \in parents |-> scans[lastOf(p)].names ],
        softFailKeySet |-> UNION { scans[i].softKeys : i \in DOMAIN scans } ]

\* variant: the global registry is keyed by the API name alone
foldScans_byName(scans) ==
  LET parents == { scans[i].parent : i \in DOMAIN scans }
  IN  [ allRows        |-> Concat([i \in 1..Len(scans) |-> scans[i].rows]),
        grandUniqueSet |-> UNION { scans[i].names : i \in DOMAIN scans },
        uniqueByParent |-> [ p \in parents |->
                               UNION { scans[i].names :
                                       i \in { j \in DOMAIN scans : scans[j].parent = p } } ],
        softFailKeySet |-> UNION { scans[i].softKeys : i \in DOMAIN scans } ]

\* lines 306-346: the collections after the loop over the scanned documents
foldScans(scans) ==
  LET parents == { scans[i].parent : i \in DOMAIN scans }
  IN  [ allRows        |-> Concat([i \in 1..Len(scans) |-> scans[i].rows]),
        grandUniqueSet |-> UNION { { scans[i].parent \o <<"|">> \o n : n \in scans[i].names } :
                                    i \in DOMAIN scans },
        uniqueByParent |-> [ p \in parents |->
                               UNION { scans[i].names :
                                       i \in { j \in DOMAIN scans : scans[j].parent = p } } ],
        softFailKeySet |-> UNION { scans[i].softKeys : i \in DOMAIN scans } ]

\* lines 357-360 / 368-371: the API tiles from the registry size and the rows
apiDisp(registrySize, rows) ==
  LET apiRows == aggregateApiStatsFromRows(rows)
      unique  == IF registrySize # 0 THEN registrySize ELSE apiRows.unique
  IN  [ unique |-> unique, passed |-> apiRows.passed,
        failed |-> Max0(unique - apiRows.passed),
        rate   |-> pctStr(apiRows.passed, unique) ]

\* lines 384-399: the table row of r in the module table
tableRow(r, module, softKeys) ==
  [ style |-> IF (r.parent \o <<"|">> \o module \o <<"|">> \o r.api) \in softKeys
              THEN T_softStyle ELSE << >>,
    api |-> esc(r.api), pass |-> fmt(r.pass), fail |-> fmt(r.fail), total |-> fmt(r.total),
    passPct |-> r.passPct, avg |-> r.avg ]

\* lines 364-435: the section of one parent
parentSection(parent, rowsAll, byParent, softKeys) ==
  LET rows    == SelectSeq(rowsAll, LAMBDA r : r.parent = parent)
      size    == IF parent \in DOMAIN byParent THEN Cardinality(byParent[parent]) ELSE 0
      modules == SortedKeys({ rows[i].module : i \in DOMAIN rows })
      modRows(m) == SelectSeq(rows, LAMBDA r : r.module = m)
  IN  [ parent   |-> parent,
        pApiDisp |-> apiDisp(size, rows),
        pCase    |-> aggregateCaseStats(rows),
        modules  |-> [ k \in 1..Len(modules) |->
                         [ module |-> modules[k],
                           rows   |-> [ i \in 1..Len(modRows(modules[k])) |->
                                          tableRow(modRows(modules[k])[i], modules[k],
                                                   softKeys) ] ] ] ]

\* lines 348-435: the sections, in the order of the sorted parent keys
buildParentSections(rowsAll, byParent, softKeys) ==
  LET parents == SortedKeys({ rowsAll[i].parent : i \in DOMAIN rowsAll })
  IN  [ k \in 1..Len(parents) |-> parentSection(parents[k], rowsAll, byParent, softKeys) ]

(***************************************************************************)
(* Bounds and input pools                                                  *)
(***************************************************************************)
MaxRuns    == 3   \* suite-report invocations in one behaviour of Spec
MaxExecs   == 3   \* executions in one run JSON of SpecSuite
MaxAsserts == 2   \* assertions of the execution of SpecCase
MaxRows    == 2   \* folder rows of the table of SpecRows
MaxCases   == 40  \* cases of one summary row of SpecRollup

Err(msg)              == << [test |-> << >>, name |-> << >>, message |-> msg, stack |-> << >>] >>
PassA(name)           == << [assertion |-> name, error |-> << >>] >>
FailA(name, msg)      == << [assertion |-> name, error |-> Err(msg)] >>
Hdr(k, v, off)        == << [key |-> k, value |-> v, disabled |-> off] >>
Resp(code, rt, text)  == << [code |-> << code >>, status |-> T_OK, responseTime |-> rt,
                             header |-> << Hdr(<<"h">>, <<"1">>, FALSE) >>, text |-> text] >>
Req(method, hdrs, raw) == << [method |-> method, url |-> <<"/", "u">>, header |-> hdrs,
                              body |-> << [mode |-> "raw", raw |-> raw] >>] >>
Exec(item, assertions, response, request, iteration) ==
  << [item |-> item, assertions |-> assertions, response |-> response,
      request |-> request, iteration |-> iteration] >>

N_ok       == <<"o","k">>
N_skip     == <<"s","k","i","p">>
N_SKIP     == <<"S","K","I","P">>
N_Skipped  == <<"S","k","i","p","p","e","d">>
N_SKIPPING == <<"S","K","I","P","P","I","N","G">>
N_autoskip == <<"a","u","t","o","s","k","i","p">>
N_toSkipIt == <<"t","o"," ","S","k","i","p"," ","i","t">>
N_skip_x   == <<"s","k","i","p","_","x">>
N_boom     == <<"b","o","o","m">>
N_Ax       == <<"A","/","x">>
N_Ay       == <<"A","/","y">>
N_Bx       == <<"B","/","x">>
N_Sz       == <<"S","/","z">>
N_SC1x     == <<"S","C","_","1","_","x">>
N_x        == <<"x">>
N_endTag   == <<"a","<","/","s","c","r","i","p","t",">">>
N_GET      == <<"G","E","T">>
N_jsonBody == <<"[","\"","a","\"","]">>
N_textBody == <<"{","b","a","d">>
N_collection == <<"S","u","i","t","e"," ","-"," ","M">>

AssertNames == { << >>, N_ok, N_skip, N_SKIP, N_Skipped, N_SKIPPING, N_autoskip,
                 N_toSkipIt, N_skip_x }
ErrorMsgs   == { << >>, N_boom, N_skip, N_Skipped, N_toSkipIt }

\* the assertion entries an execution of SpecCase is built from
AssertPool ==
  { << >> } \cup { PassA(n) : n \in AssertNames }
            \cup { FailA(N_ok, m) : m \in ErrorMsgs }
            \cup { FailA(N_skip, N_boom),
                   << [assertion |-> << >>,
                       error |-> << [test |-> N_SKIP, name |-> << >>,
                                     message |-> << >>, stack |-> N_boom] >>] >> }

AssertSeqs == UNION { [1..k -> AssertPool] : k \in 0..MaxAsserts }

SampleReq == Req(N_GET, << Hdr(<<"k">>, <<"v">>, FALSE), Hdr(<<"d">>, <<"v">>, TRUE),
                           << >>, Hdr(<<"k">>, <<"w">>, FALSE) >>, N_jsonBody)

\* a request whose body is in urlencoded or formdata mode
ReqForm(mode, params) ==
  << [method |-> N_GET, url |-> <<"/", "u">>,
      header |-> << Hdr(<< >>, <<"v">>, FALSE), << >>, Hdr(<<"d">>, <<"v">>, TRUE) >>,
      body |-> << [mode |-> mode, raw |-> << >>, params |-> params] >>] >>
Pair(k, v)     == << [key |-> k, value |-> v] >>
ParamList(ps)  == << [list |-> TRUE, items |-> ps] >>
ParamText      == << [list |-> FALSE, items |-> << >>] >>

\* requests of SpecCase: raw JSON, raw text that is no JSON, and bodies in
\* urlencoded or formdata mode whose array is well formed, missing, no array,
\* or holds a null
CaseReqs ==
  { << >>, SampleReq, Req(N_GET, << >>, N_textBody),
    ReqForm("urlencoded", ParamList(<< Pair(<<"k">>, <<"v">>), Pair(<<"a">>, <<"b">>) >>)),
    ReqForm("formdata", ParamList(<< Pair(<<"k">>, <<"v">>) >>)),
    ReqForm("urlencoded", << >>),
    ReqForm("urlencoded", ParamText),
    ReqForm("urlencoded", ParamList(<< Pair(<<"k">>, <<"v">>), << >> >>)),
    ReqForm("formdata", ParamList(<< << >> >>)) }

\* executions of SpecCase: one execution, every assertion list
CaseExecs ==
  { << >> } \cup
  { Exec(item, as, resp, req, 0) :
      item \in { N_Ax, << >> }, as \in AssertSeqs,
      resp \in { << >>, Resp(200, << 400 >>, N_textBody) },
      req \in CaseReqs }

\* executions of SpecSuite
E_a == Exec(N_Ax, << PassA(N_ok), PassA(N_ok) >>, Resp(200, << 400 >>, N_jsonBody), SampleReq, 0)
E_b == Exec(N_Ay, << FailA(N_ok, N_boom) >>, Resp(500, << 1500 >>, N_textBody), SampleReq, 0)
E_c == Exec(N_Bx, << >>, << >>, << >>, 0)
E_null == << >>
E_skip == Exec(N_Sz, << PassA(N_skip), FailA(N_ok, N_boom) >>, Resp(200, << 400 >>, << >>), << >>, 0)
E_at   == Exec(N_Bx, << PassA(N_ok) >>, Resp(200, << 1000 >>, << >>), << >>, 1)
E_over == Exec(N_Bx, << PassA(N_ok) >>, Resp(200, << 1001 >>, << >>), << >>, 0)
E_tag  == Exec(N_endTag, << PassA(N_ok) >>, Resp(200, << 400 >>, << >>), << >>, 0)
E_sc   == Exec(N_SC1x, << PassA(N_ok) >>, Resp(200, << >>, << >>), << >>, 0)
E_x    == Exec(N_x, << FailA(N_Skipped, N_boom) >>, << >>, << >>, 0)
E_bad  == Exec(N_Ax, << PassA(N_ok), << >> >>, << >>, << >>, 0)

SuiteExecs == { E_a, E_b, E_c, E_null, E_skip, E_at, E_over, E_tag, E_sc, E_x, E_bad }
SuiteRuns  == UNION { [1..k -> SuiteExecs] : k \in 0..MaxExecs }
SuiteSlas  == { << >>, << 400 >> }

\* folder summaries of SpecRows: the rows lines 179-194 build for a folder
\* with p passing and f failing cases
BulkCases(g, p, f, rt) ==
  LET ok == testCaseOf(Exec(g, << PassA(N_ok) >>, Resp(200, rt, << >>), << >>, 0))
      ng == testCaseOf(Exec(g, << FailA(N_ok, N_boom) >>, Resp(500, rt, << >>), << >>, 0))
  IN  [i \in 1..(p + f) |-> IF i <= p THEN ok ELSE ng]
BulkRow(g, p, f, rt) == folderRowOf(folderEntry(BulkCases(g, p, f, rt), g))
RowGroups == << <<"A">>, <<"B">>, <<"C">>, <<"D">> >>
RowCounts == { <<1, 0>>, <<0, 1>>, <<999, 1>>, <<1000, 0>> }
RowTimes  == { << >>, << 1500 >> }
RowsOf(g) == { BulkRow(g, c[1], c[2], rt) : c \in RowCounts, rt \in RowTimes }
\* folders whose names end in a number or hold a character that esc rewrites
RowNames  == { <<"L"," ","1">>, <<"L"," ","2">>, <<"a","&","b">> }
NamedRows == { BulkRow(g, 1, 0, << >>) : g \in RowNames }
\* tables of up to MaxRows rows, in the order of the sort of line 194
RowTables ==
  UNION { { t \in [1..k -> NamedRows \cup UNION { RowsOf(RowGroups[i]) : i \in DOMAIN RowGroups }] :
              \A i \in 1..(k - 1) : LessText(t[i].pretty, t[i + 1].pretty) } :
          k \in 0..MaxRows }

\* project root and output paths
N_drive  == <<"C",":">>
N_root   == <<"N","e","w","M","a","n","C","o","l","l","e","c","t","i","o","n","L","i","s","t">>
N_P      == <<"P">>
N_Q      == <<"Q">>
N_M      == <<"M">>
N_out    == <<"o","u","t">>
N_report == <<"r",".","h","t","m","l">>
ROOT      == << N_drive, N_root >>
TEMP_ROOT == ROOT \o << T_Temp >>
OutFiles  == { ROOT \o << N_P, N_M, N_report >>,
               ROOT \o << N_Q, N_M, N_report >>,
               << N_drive, N_out, N_report >> }

RunData(es) == << [execs |-> es, collectionName |-> N_collection] >>
Args(data, out, sla) ==
  [ given |-> TRUE, input |-> data, outFile |-> out, titleArg |-> << >>, slaArg |-> sla ]
NoArgs == [ given |-> FALSE, input |-> << >>, outFile |-> << >>, titleArg |-> << >>,
            slaArg |-> << >> ]

\* invocations of Spec: several identities, few run documents
PipelineArgs ==
  { NoArgs } \cup
  { Args(d, o, << >>) :
      d \in { << >>, RunData(<< E_a >>), RunData(<< E_b >>), RunData(<< E_bad >>) },
      o \in OutFiles }
\* invocations of SpecSuite: one identity, every run of up to MaxExecs executions
SuiteArgs ==
  { NoArgs, Args(<< >>, ROOT \o << N_P, N_M, N_report >>, << >>) } \cup
  { Args(RunData(es), ROOT \o << N_P, N_M, N_report >>, sla) :
      es \in SuiteRuns, sla \in SuiteSlas }
\* invocations of SpecCase: a run of one execution
CaseArgs ==
  { NoArgs, Args(<< >>, ROOT \o << N_P, N_M, N_report >>, << >>) } \cup
  { Args(RunData(<< e >>), ROOT \o << N_P, N_M, N_report >>, << >>) : e \in CaseExecs }

\* invocations of SpecIdentity: one run document, every output path built
\* from the segment texts
SegTexts == { N_P, N_M, <<"R","&","D">>, <<"O","'","N","e","i","l">>, <<"a","\"","b">>, <<"<","x",">">>, <<"P"," ","M">> }
IdentityFiles ==
  { ROOT \o << p, m, N_report >> : p \in SegTexts, m \in SegTexts } \cup
  { ROOT \o << p, N_report >> : p \in SegTexts } \cup
  { ROOT \o << N_report >>, << N_drive, N_out, N_report >> }
IdentityArgs ==
  { NoArgs, Args(<< >>, ROOT \o << N_P, N_M, N_report >>, << >>),
    Args(RunData(<< E_bad >>), ROOT \o << N_P, N_M, N_report >>, << >>) } \cup
  { Args(RunData(<< E_a >>), o, << >>) : o \in IdentityFiles }

N_N        == <<"N">>
N_softMark == <<"B","o","d","y"," ","s","c","h","e","m","a"," ","+"," ","-","-",">"," ","F","a","i","l","i","n","g">>
N_day1     == <<"2","0","2","6","-","0","1","-","3","1">>
N_day2     == <<"2","0","2","6","-","0","2","-","0","1">>

\* invocations of SpecCombine: run k renders the suite DocFile(k); the
\* combine process starts after any number of renders
MaxDocs == 3   \* suite renders before the combine process of SpecCombine
X_pass  == Exec(N_x, << PassA(N_ok) >>, Resp(200, << 400 >>, << >>), << >>, 0)
X_fail  == Exec(N_x, << FailA(N_ok, N_boom) >>, Resp(500, << 400 >>, << >>), << >>, 0)
X_soft  == Exec(N_x, << PassA(N_softMark) >>, Resp(200, << 400 >>, << >>), << >>, 0)
Ax_soft == Exec(N_Ax, << FailA(N_ok, N_softMark) >>, Resp(200, << 400 >>, << >>), << >>, 0)
Ay_pass == Exec(N_Ay, << PassA(N_ok) >>, Resp(200, << 400 >>, << >>), << >>, 0)
Xup_pass == Exec(<<"X">>, << PassA(N_ok) >>, Resp(200, << 400 >>, << >>), << >>, 0)
DocFile(k) ==
  ROOT \o << IF k < 2 THEN N_P ELSE N_Q, IF k % 2 = 0 THEN N_M ELSE N_N, N_report >>
DocRuns(k) ==
  IF k = 0 THEN { << X_pass >>, << X_soft >>, << E_a, Ay_pass >>, << X_fail, E_sc >>,
                  << Ax_soft >>, << E_tag >>, << >>, << X_soft, Ay_pass >>,
                  << X_soft, Xup_pass >> }
  ELSE IF k = 1 THEN { << X_pass >>, << X_fail >> }
  ELSE IF k % 2 = 0 THEN { << X_pass >> } ELSE { << X_fail >> }
CombineArgs(k) ==
  (IF k = 0 THEN { NoArgs, Args(<< >>, DocFile(0), << >>),
                   Args(RunData(<< E_bad >>), DocFile(0), << >>) } ELSE {})
  \cup { Args(RunData(es), DocFile(k), << >>) : es \in DocRuns(k) }
Days == { N_day1, N_day2 }

(***************************************************************************)
(* State                                                                   *)
(***************************************************************************)
VARIABLES
  pc,           \* position of the running suite-report process
  argv,         \* its command line
  execs,        \* data.run.executions
  collection,   \* data.collection.info.name
  testCases,    \* the normalized cases
  stats,        \* totalCases, passedCases, failedCases, passPct, withinSLA, withinPct
  folderRows,   \* the folder summaries
  suiteApiSet,  \* the deduplicated API display names, in insertion order
  API_SUMMARY,  \* the per-folder API summaries
  html,         \* the rendered document
  files,        \* the file system: path -> content
  exitCode,     \* <<>> while running, << status >> after the process ended
  failure,      \* why the process ended: "none", "usage", "input", "exception", "fs"
  runs,         \* number of invocations so far
  filesAtStart, \* history: the file system when the current process started
  lastRender,   \* history: identity -> primary document of its latest completed render,
                \*          and the number of completed renders
  cpc,            \* position of the running combine process
  picked,         \* the suite documents found under Temp, in scan order
  allRows,        \* the summary rows parsed so far
  grandUniqueSet, \* the parent|name keys of the APIs seen
  uniqueByParent, \* parent -> the API names seen under it
  softFailKeySet, \* the parent|module|api keys flagged as soft failures
  grandApiDisp,   \* the API tiles of the total summary
  grandCase,      \* the test-case tiles of the total summary
  parentSections, \* per parent: API tiles, test-case tiles, module tables
  combineExit,    \* <<>> while running, << status >> after the combine process ended
  madeDirs,       \* the directories the combine process created
  disk,           \* the directory tree the cleanup process works on: path -> entry
  cleanPc,        \* position of the cleanup process
  todo,           \* the names of Temp the loop of the cleanup process has yet to visit
  cleanExit,      \* <<>> while running, << status >> after the cleanup process ended
  errLog,         \* the paths the cleanup process reported as not removed
  faulty,         \* environment: the entries whose removal raises (locked, access denied)
  platform,       \* environment: "win32" or "posix"
  diskAtStart,    \* history: the tree when the cleanup process started
  stage,          \* position of the orchestrator: "off", "suites", "combine", "cleanup"
  flowRun,        \* number of orchestrated runs started
  renderedBefore  \* history: lastRender when the current orchestrated run began

\* the state of the combine process
combineVars == << cpc, picked, allRows, grandUniqueSet, uniqueByParent, softFailKeySet,
                  grandApiDisp, grandCase, parentSections, combineExit, madeDirs >>

\* the state of the suite-report process
suiteVars == << pc, argv, execs, collection, testCases, stats, folderRows, suiteApiSet,
                API_SUMMARY, html, exitCode, failure, runs, filesAtStart, lastRender >>

\* the state of the cleanup process and its environment
cleanVars == << disk, cleanPc, todo, cleanExit, errLog, faulty, platform, diskAtStart >>

\* the state of the orchestrator
flowVars == << stage, flowRun, renderedBefore >>

extraVars == << cleanVars, flowVars >>

vars == << suiteVars, files, combineVars, extraVars >>

\* no cleanup process and no orchestrator
ExtraInit ==
  /\ disk = << >>
  /\ cleanPc = "idle"
  /\ todo = << >>
  /\ cleanExit = << >>
  /\ errLog = << >>
  /\ faulty = {}
  /\ platform = "win32"
  /\ diskAtStart = << >>
  /\ stage = "off"
  /\ flowRun = 0
  /\ renderedBefore = << >>

NoApiDisp == [ unique |-> 0, passed |-> 0, failed |-> 0, rate |-> <<"0", "%">> ]
NoCase    == [ total |-> 0, pass |-> 0, fail |-> 0, rate |-> <<"0", "%">> ]

NoStats == [ totalCases |-> 0, passedCases |-> 0, failedCases |-> 0, passPct |-> 0,
             withinSLA |-> 0, withinPct |-> 0 ]

\* lines 30-31, 61-62
TITLE        == titleOf(argv.titleArg)
SLA_MS       == slaOf(argv.slaArg)
SUITE_PARENT == deriveParentFromPath(argv.outFile)
SUITE_MODULE == deriveModuleFromPath(argv.outFile, collection)

\* variant: the Temp copy is not placed under the parent directory
tempFileOf_noParent(parent, module) == TEMP_ROOT \o << module \o T_latest >>

\* lines 552-554: path.join(TEMP_ROOT, SUITE_PARENT, `${SUITE_MODULE}_latest.html`)
tempFileOf(parent, module) == TEMP_ROOT \o << parent, module \o T_latest >>

\* fs.writeFileSync(path, text)
writeFile(fs, path, text) ==
  [ q \in (DOMAIN fs) \cup { path } |-> IF q = path THEN text ELSE fs[q] ]

Init ==
  /\ pc = "idle"
  /\ argv = NoArgs
  /\ execs = << >>
  /\ collection = << >>
  /\ testCases = << >>
  /\ stats = NoStats
  /\ folderRows = << >>
  /\ suiteApiSet = << >>
  /\ API_SUMMARY = << >>
  /\ html = << >>
  /\ files = << >>
  /\ exitCode = << >>
  /\ failure = "none"
  /\ runs = 0
  /\ filesAtStart = << >>
  /\ lastRender = << >>
  /\ cpc = "idle"
  /\ picked = << >>
  /\ allRows = << >>
  /\ grandUniqueSet = {}
  /\ uniqueByParent = << >>
  /\ softFailKeySet = {}
  /\ grandApiDisp = NoApiDisp
  /\ grandCase = NoCase
  /\ parentSections = << >>
  /\ combineExit = << >>
  /\ madeDirs = {}
  /\ ExtraInit

(***************************************************************************)
(* Actions of make-suite-report.js                                         *)
(***************************************************************************)
\* the orchestrator starts  node make-suite-report.js <in> <out> [title] [sla]
Start(a) ==
  /\ pc \in { "idle", "exited" }
  /\ pc' = "args"
  /\ argv' = a
  /\ execs' = << >>
  /\ collection' = << >>
  /\ testCases' = << >>
  /\ stats' = NoStats
  /\ folderRows' = << >>
  /\ suiteApiSet' = << >>
  /\ API_SUMMARY' = << >>
  /\ html' = << >>
  /\ exitCode' = << >>
  /\ failure' = "none"
  /\ runs' = runs + 1
  /\ filesAtStart' = files
  /\ UNCHANGED << files, lastRender >>
  /\ UNCHANGED << combineVars, extraVars >>

Invoke      == runs < MaxRuns /\ \E a \in PipelineArgs : Start(a)
InvokeSuite == runs = 0 /\ \E a \in SuiteArgs : Start(a)
InvokeCase  == runs = 0 /\ \E a \in CaseArgs : Start(a)
InvokeIdentity == runs = 0 /\ \E a \in IdentityArgs : Start(a)

\* process.exit(1) / an uncaught exception
Exit(code, why) ==
  /\ pc' = "exited"
  /\ exitCode' = << code >>
  /\ failure' = why

\* lines 26-29
UsageError ==
  /\ pc = "args"
  /\ ~argv.given
  /\ Exit(1, "usage")
  /\ UNCHANGED << argv, execs, collection, testCases, stats, folderRows, suiteApiSet,
                  API_SUMMARY, html, files, runs, filesAtStart, lastRender >>
  /\ UNCHANGED << combineVars, extraVars >>

\* variant: the catch branch reports the error and goes on with empty data
LoadFail_continues ==
  /\ pc = "args"
  /\ argv.given
  /\ argv.input = << >>
  /\ execs' = << >>
  /\ collection' = << >>
  /\ pc' = "loaded"
  /\ UNCHANGED << argv, testCases, stats, folderRows, suiteApiSet, API_SUMMARY, html,
                  files, exitCode, failure, runs, filesAtStart, lastRender >>
  /\ UNCHANGED << combineVars, extraVars >>

\* lines 34-36, the catch branch
LoadFail ==
  /\ pc = "args"
  /\ argv.given
  /\ argv.input = << >>
  /\ Exit(1, "input")
  /\ UNCHANGED << argv, execs, collection, testCases, stats, folderRows, suiteApiSet,
                  API_SUMMARY, html, files, runs, filesAtStart, lastRender >>
  /\ UNCHANGED << combineVars, extraVars >>

\* lines 34-40
LoadOk ==
  /\ pc = "args"
  /\ argv.given
  /\ argv.input # << >>
  /\ execs' = argv.input[1].execs
  /\ collection' = argv.input[1].collectionName
  /\ pc' = "loaded"
  /\ UNCHANGED << argv, testCases, stats, folderRows, suiteApiSet, API_SUMMARY, html,
                  files, exitCode, failure, runs, filesAtStart, lastRender >>
  /\ UNCHANGED << combineVars, extraVars >>

\* lines 117-167
BuildTestCases ==
  /\ pc = "loaded"
  /\ \A i \in DOMAIN execs : ~normalizeThrows(execs[i])
  /\ testCases' = [i \in DOMAIN execs |-> testCaseOf(execs[i])]
  /\ pc' = "built"
  /\ UNCHANGED << argv, execs, collection, stats, folderRows, suiteApiSet, API_SUMMARY,
                  html, files, exitCode, failure, runs, filesAtStart, lastRender >>
  /\ UNCHANGED << combineVars, extraVars >>

\* lines 117-167, the callback raises
BuildTestCasesThrows ==
  /\ pc = "loaded"
  /\ \E i \in DOMAIN execs : normalizeThrows(execs[i])
  /\ Exit(1, "exception")
  /\ UNCHANGED << argv, execs, collection, testCases, stats, folderRows, suiteApiSet,
                  API_SUMMARY, html, files, runs, filesAtStart, lastRender >>
  /\ UNCHANGED << combineVars, extraVars >>

\* lines 170-221
Aggregate ==
  /\ pc = "built"
  /\ stats' = suiteStats(testCases, SLA_MS)
  /\ folderRows' = buildFolderRows(testCases)
  /\ suiteApiSet' = buildSuiteApiSet(testCases)
  /\ API_SUMMARY' = buildApiSummary(testCases)
  /\ pc' = "aggregated"
  /\ UNCHANGED << argv, execs, collection, testCases, html, files, exitCode, failure,
                  runs, filesAtStart, lastRender >>
  /\ UNCHANGED << combineVars, extraVars >>

\* lines 284-543
Render ==
  /\ pc = "aggregated"
  /\ html' = renderHtml(SUITE_PARENT, SUITE_MODULE, TITLE, stats, SLA_MS, folderRows,
                        suiteApiSet)
  /\ pc' = "rendered"
  /\ UNCHANGED << argv, execs, collection, testCases, stats, folderRows, suiteApiSet,
                  API_SUMMARY, files, exitCode, failure, runs, filesAtStart, lastRender >>
  /\ UNCHANGED << combineVars, extraVars >>

\* lines 546-548
WriteOutFile ==
  /\ pc = "rendered"
  /\ files' = writeFile(files, argv.outFile, html)
  /\ pc' = "wroteOut"
  /\ UNCHANGED << argv, execs, collection, testCases, stats, folderRows, suiteApiSet,
                  API_SUMMARY, html, exitCode, failure, runs, filesAtStart, lastRender >>
  /\ UNCHANGED << combineVars, extraVars >>

\* lines 551-557, then the process ends with status 0
WriteTemp ==
  /\ pc = "wroteOut"
  /\ files' = writeFile(files, tempFileOf(SUITE_PARENT, SUITE_MODULE), html)
  /\ lastRender' =
       LET id == << SUITE_PARENT, SUITE_MODULE >>
       IN  writeFile(lastRender, id,
                     [ doc     |-> files[argv.outFile],
                       cases   |-> testCases,
                       renders |-> IF id \in DOMAIN lastRender
                                   THEN lastRender[id].renders + 1 ELSE 1 ])
  /\ Exit(0, "none")
  /\ UNCHANGED << argv, execs, collection, testCases, stats, folderRows, suiteApiSet,
                  API_SUMMARY, html, runs, filesAtStart >>
  /\ UNCHANGED << combineVars, extraVars >>

\* lines 546-555: mkdirSync / writeFileSync raises (disk full, access denied)
WriteFails ==
  /\ pc \in { "rendered", "wroteOut" }
  /\ Exit(1, "fs")
  /\ UNCHANGED << argv, execs, collection, testCases, stats, folderRows, suiteApiSet,
                  API_SUMMARY, html, files, runs, filesAtStart, lastRender >>
  /\ UNCHANGED << combineVars, extraVars >>

Steps ==
  \/ UsageError
  \/ LoadFail
  \/ LoadOk
  \/ BuildTestCases
  \/ BuildTestCasesThrows
  \/ Aggregate
  \/ Render
  \/ WriteOutFile
  \/ WriteTemp
  \/ WriteFails

Next      == Invoke \/ Steps
NextSuite == InvokeSuite \/ Steps
NextCase  == InvokeCase \/ Steps
NextIdentity == InvokeIdentity \/ Steps

Spec      == Init /\ [][Next]_vars
SpecSuite == Init /\ [][NextSuite]_vars
SpecCase  == Init /\ [][NextCase]_vars
SpecIdentity == Init /\ [][NextIdentity]_vars

(***************************************************************************)
(* Actions of cleanup-temp.js (combine part), lines 299-545                *)
(***************************************************************************)
EMAIL_ROOT == ROOT \o << T_EmailReports >>

\* the directory of a path
DirOf(p) == SubSeq(p, 1, Len(p) - 1)

\* lines 102-107: the orders in which the walk can yield the documents S;
\* readdirSync fixes no order of the names, the documents of one directory
\* come one after the other
WalkOrders(S) ==
  { o \in [1..Cardinality(S) -> S] :
      /\ \A i, j \in DOMAIN o : i # j => o[i] # o[j]
      /\ \A i, j, k \in DOMAIN o :
           i < j /\ j < k /\ DirOf(o[i]) = DirOf(o[k]) => DirOf(o[j]) = DirOf(o[i]) }

\* FINAL_HTML (lines 443-486): the data placed in the markup
FINAL_HTML == [ doc |-> "final", api |-> grandApiDisp, case |-> grandCase,
                sections |-> parentSections ]

\* EMAIL_HTML (lines 491-539): the data placed in the markup
EMAIL_HTML ==
  [ doc |-> "email", api |-> grandApiDisp, case |-> grandCase,
    sections |-> [ k \in 1..Len(parentSections) |->
                     [ parent   |-> parentSections[k].parent,
                       pApiDisp |-> parentSections[k].pApiDisp,
                       pCase    |-> parentSections[k].pCase ] ] ]

CombineFrame == UNCHANGED << suiteVars, extraVars >>

\* variant: with nothing to combine, an empty dashboard directory is still made
FindNone_mkdir ==
  /\ cpc = "idle"
  /\ pc \in { "idle", "exited" }
  /\ findSuiteHtmls(files, TEMP_ROOT) = {}
  /\ cpc' = "nothing"
  /\ combineExit' = << 0 >>
  /\ madeDirs' = madeDirs \cup { EMAIL_ROOT \o << N_day1 >> }
  /\ CombineFrame
  /\ UNCHANGED << files, picked, allRows, grandUniqueSet, uniqueByParent, softFailKeySet,
                  grandApiDisp, grandCase, parentSections >>

\* lines 299-304: nothing to combine
FindNone ==
  /\ cpc = "idle"
  /\ pc \in { "idle", "exited" }
  /\ findSuiteHtmls(files, TEMP_ROOT) = {}
  /\ cpc' = "nothing"
  /\ combineExit' = << 0 >>
  /\ CombineFrame
  /\ UNCHANGED << files, picked, allRows, grandUniqueSet, uniqueByParent, softFailKeySet,
                  grandApiDisp, grandCase, parentSections, madeDirs >>

\* lines 99-109, 300: the documents in the order the directory walk yields
FindSome ==
  /\ cpc = "idle"
  /\ pc \in { "idle", "exited" }
  /\ findSuiteHtmls(files, TEMP_ROOT) # {}
  /\ \E order \in WalkOrders(findSuiteHtmls(files, TEMP_ROOT)) : picked' = order
  /\ cpc' = "scan"
  /\ CombineFrame
  /\ UNCHANGED << files, allRows, grandUniqueSet, uniqueByParent, softFailKeySet,
                  grandApiDisp, grandCase, parentSections, combineExit, madeDirs >>

\* lines 306-309, 325-345: the collections take what the loop gathered
Gather(acc) ==
  /\ allRows' = acc.allRows
  /\ grandUniqueSet' = acc.grandUniqueSet
  /\ uniqueByParent' = acc.uniqueByParent
  /\ softFailKeySet' = acc.softFailKeySet

\* lines 313-346: the loop over the picked documents
ScanAll ==
  /\ cpc = "scan"
  /\ Gather(foldScans([i \in 1..Len(picked) |-> scanFile(files[picked[i]])]))
  /\ cpc' = "scanned"
  /\ CombineFrame
  /\ UNCHANGED << files, picked, grandApiDisp, grandCase, parentSections, combineExit,
                  madeDirs >>

\* line 314: fs.readFileSync raises for one of the documents; nothing catches
\* it, the process ends with status 1
ScanThrows ==
  /\ cpc = "scan"
  /\ cpc' = "threw"
  /\ combineExit' = << 1 >>
  /\ CombineFrame
  /\ UNCHANGED << files, picked, allRows, grandUniqueSet, uniqueByParent, softFailKeySet,
                  grandApiDisp, grandCase, parentSections, madeDirs >>

\* lines 348-435
Rollup ==
  /\ cpc = "scanned"
  /\ grandApiDisp' = apiDisp(Cardinality(grandUniqueSet), allRows)
  /\ grandCase' = aggregateCaseStats(allRows)
  /\ parentSections' = buildParentSections(allRows, uniqueByParent, softFailKeySet)
  /\ cpc' = "built"
  /\ CombineFrame
  /\ UNCHANGED << files, picked, allRows, grandUniqueSet, uniqueByParent, softFailKeySet,
                  combineExit, madeDirs >>

\* lines 437-544: the three documents are written, the process ends
CombineWrite ==
  /\ cpc = "built"
  /\ \E dateStr \in Days :
       LET outDir == EMAIL_ROOT \o << dateStr >>
       IN  /\ madeDirs' = madeDirs \cup { outDir }
           /\ files' = writeFile(writeFile(writeFile(files,
                         outDir \o << T_finalName >>, FINAL_HTML),
                         outDir \o << T_emailName >>, EMAIL_HTML),
                         outDir \o << T_inlineName >>, EMAIL_HTML)
  /\ cpc' = "done"
  /\ combineExit' = << 0 >>
  /\ CombineFrame
  /\ UNCHANGED << picked, allRows, grandUniqueSet, uniqueByParent, softFailKeySet,
                  grandApiDisp, grandCase, parentSections >>

\* line 440: mkdirSync raises (access denied); the process ends with status 1
CombineWriteFails ==
  /\ cpc = "built"
  /\ cpc' = "writeFailed"
  /\ combineExit' = << 1 >>
  /\ CombineFrame
  /\ UNCHANGED << files, picked, allRows, grandUniqueSet, uniqueByParent, softFailKeySet,
                  grandApiDisp, grandCase, parentSections, madeDirs >>

CombineSteps ==
  \/ FindNone
  \/ FindSome
  \/ ScanAll
  \/ ScanThrows
  \/ Rollup
  \/ CombineWrite
  \/ CombineWriteFails

\* the orchestrator runs the suites one after the other, then the combine step
InvokeCombine == cpc = "idle" /\ runs < MaxDocs /\ \E a \in CombineArgs(runs) : Start(a)

NextCombine == InvokeCombine \/ Steps \/ CombineSteps
SpecCombine == Init /\ [][NextCombine]_vars


(***************************************************************************)
(* The folder table on its own: the template of lines 328-346 applied to   *)
(* folder summaries of every size, and parseSuiteRows applied to its text  *)
(***************************************************************************)
InitRows ==
  /\ argv = NoArgs
  /\ execs = << >>
  /\ collection = << >>
  /\ testCases = << >>
  /\ stats = NoStats
  /\ suiteApiSet = << >>
  /\ API_SUMMARY = << >>
  /\ html = << >>
  /\ files = << >>
  /\ exitCode = << >>
  /\ failure = "none"
  /\ runs = 0
  /\ filesAtStart = << >>
  /\ lastRender = << >>
  /\ cpc = "idle"
  /\ picked = << >>
  /\ allRows = << >>
  /\ grandUniqueSet = {}
  /\ uniqueByParent = << >>
  /\ softFailKeySet = {}
  /\ grandApiDisp = NoApiDisp
  /\ grandCase = NoCase
  /\ parentSections = << >>
  /\ combineExit = << >>
  /\ madeDirs = {}
  /\ ExtraInit
  /\ pc = "rows"
  /\ folderRows \in RowTables

\* lines 328-346
RenderRows ==
  /\ pc = "rows"
  /\ html' = tableSeg(folderRows)
  /\ pc' = "table"
  /\ UNCHANGED << argv, execs, collection, testCases, stats, folderRows, suiteApiSet,
                  API_SUMMARY, files, exitCode, failure, runs, filesAtStart, lastRender >>
  /\ UNCHANGED << cpc, picked, allRows, grandUniqueSet, uniqueByParent, softFailKeySet,
                  grandApiDisp, grandCase, parentSections, combineExit, madeDirs >>
  /\ UNCHANGED extraVars

\* cleanup-temp.js lines 316-317: rows = parseSuiteRows(html); allRows.push(...rows)
ParseRows ==
  /\ pc = "table"
  /\ allRows' = allRows \o parseSuiteRows(html)
  /\ pc' = "parsed"
  /\ UNCHANGED << argv, execs, collection, testCases, stats, folderRows, suiteApiSet,
                  API_SUMMARY, html, files, exitCode, failure, runs, filesAtStart,
                  lastRender >>
  /\ UNCHANGED << cpc, picked, grandUniqueSet, uniqueByParent, softFailKeySet,
                  grandApiDisp, grandCase, parentSections, combineExit, madeDirs >>
  /\ UNCHANGED extraVars

NextRows == RenderRows \/ ParseRows
SpecRows == InitRows /\ [][NextRows]_vars

(***************************************************************************)
(* The rollup on its own: lines 348-544 applied to the collections the     *)
(* scan loop leaves for documents with summary rows of every size          *)
(***************************************************************************)
\* the row parseSuiteRows gives for a folder row of p passed and f failed
\* cases, as folderRowOf computes its percentage
RollRow(parent, module, api, p, f) ==
  [ parent |-> parent, module |-> module, api |-> api, pass |-> p, fail |-> f,
    total |-> p + f, passPct |-> IF p + f # 0 THEN RoundDiv(100 * p, p + f) ELSE 0,
    avg |-> 400 ]

\* what the loop body keeps of a document with one summary row
RollScan(parent, module, api, c) ==
  scanRecord(<< RollRow(parent, module, api, c[1], c[2]) >>, parent, {}, << api >>)

RollCounts ==
  { c \in { <<1, 0>>, <<0, 1>>, <<5, 0>>, <<3, 2>>, <<23, 17>>, <<40, 1>> } :
      c[1] + c[2] <= MaxCases }

RollScans ==
  { << RollScan(N_P, N_M, N_x, c) >> \o more \o other :
      c \in RollCounts,
      more \in { << >> } \cup { << RollScan(N_P, N_N, N_x, d) >> : d \in { <<5, 0>>, <<3, 2>> } },
      other \in { << >>, << RollScan(N_Q, N_M, N_x, <<1, 0>>) >> } }

InitRollup ==
  /\ pc = "idle"
  /\ argv = NoArgs
  /\ execs = << >>
  /\ collection = << >>
  /\ testCases = << >>
  /\ stats = NoStats
  /\ folderRows = << >>
  /\ suiteApiSet = << >>
  /\ API_SUMMARY = << >>
  /\ html = << >>
  /\ files = << >>
  /\ exitCode = << >>
  /\ failure = "none"
  /\ runs = 0
  /\ filesAtStart = << >>
  /\ lastRender = << >>
  /\ cpc = "scanned"
  /\ picked = << >>
  /\ \E scans \in RollScans :
       /\ allRows = foldScans(scans).allRows
       /\ grandUniqueSet = foldScans(scans).grandUniqueSet
       /\ uniqueByParent = foldScans(scans).uniqueByParent
       /\ softFailKeySet = foldScans(scans).softFailKeySet
  /\ grandApiDisp = NoApiDisp
  /\ grandCase = NoCase
  /\ parentSections = << >>
  /\ combineExit = << >>
  /\ madeDirs = {}
  /\ ExtraInit

NextRollup == Rollup \/ CombineWrite \/ CombineWriteFails
SpecRollup == InitRollup /\ [][NextRollup]_vars

(***************************************************************************)
(* cleanup-temp.js (lines 1-65): the cleanup process.  The tree is a       *)
(* function from paths to entries; an entry is a directory, a file, or a   *)
(* link with the path it points to.  statSync, existsSync and readdirSync  *)
(* follow links; unlinkSync and rmdirSync act on the entry itself.         *)
(***************************************************************************)
\* line 17: tempDir = path.join(projectRoot, "Temp")
tempDir == TEMP_ROOT

DirEntry      == [kind |-> "dir",  target |-> << >>]
FileEntry     == [kind |-> "file", target |-> << >>]
LinkEntry(to) == [kind |-> "link", target |-> to]

IsPrefix(q, p) == Len(q) <= Len(p) /\ SubSeq(p, 1, Len(q)) = q

RECURSIVE realPath(_, _)
\* the path p with every link on it followed
realPath(d, p) ==
  LET links == { k \in 1..Len(p) : /\ SubSeq(p, 1, k) \in DOMAIN d
                                   /\ d[SubSeq(p, 1, k)].kind = "link" }
      k     == MinOr0(links)
  IN  IF links = {} THEN p
      ELSE realPath(d, d[SubSeq(p, 1, k)].target \o SubSeq(p, k + 1, Len(p)))

\* the entry the path p names: the links of its directory part followed, a
\* link in its last position not
entryPath(d, p) == realPath(d, DirOf(p)) \o << p[Len(p)] >>

\* fs.existsSync(p)
existsSync(d, p) == realPath(d, p) \in DOMAIN d

\* fs.statSync(p).isDirectory()
isDirectory(d, p) == d[realPath(d, p)].kind = "dir"

\* the entries directly inside the directory r
childrenOf(d, r) == { x \in DOMAIN d : Len(x) = Len(r) + 1 /\ IsPrefix(r, x) }

\* fs.readdirSync(p): the names inside p, in the order of their code units
readdirSync(d, p) == SortedKeys({ x[Len(x)] : x \in childrenOf(d, realPath(d, p)) })

removeEntry(d, e) == [x \in (DOMAIN d) \ { e } |-> d[x]]

\* fs.unlinkSync(p): the tree afterwards, and whether the call raised
unlinkSync(d, p, bad) ==
  IF entryPath(d, p) \in bad THEN [disk |-> d, threw |-> TRUE]
  ELSE [disk |-> removeEntry(d, entryPath(d, p)), threw |-> FALSE]

\* fs.rmdirSync(p): raises for a directory that is not empty and, on POSIX,
\* for a link; on Windows a link to a directory is removed
rmdirSync(d, p, bad, plat) ==
  IF \/ entryPath(d, p) \in bad
     \/ d[entryPath(d, p)].kind = "link" /\ plat = "posix"
     \/ childrenOf(d, entryPath(d, p)) # {}
  THEN [disk |-> d, threw |-> TRUE]
  ELSE [disk |-> removeEntry(d, entryPath(d, p)), threw |-> FALSE]

RECURSIVE rmrf_keepDirs(_, _, _, _)
RECURSIVE rmrfEach_keepDirs(_, _, _, _, _)
rmrfEach_keepDirs(d, p, names, bad, plat) ==
  IF names = << >> THEN [disk |-> d, threw |-> FALSE]
  ELSE LET r == rmrf_keepDirs(d, p \o << Head(names) >>, bad, plat)
       IN  IF r.threw THEN r ELSE rmrfEach_keepDirs(r.disk, p, Tail(names), bad, plat)

\* variant: the files are removed, the directories are left in place
rmrf_keepDirs(d, p, bad, plat) ==
  IF ~existsSync(d, p) THEN [disk |-> d, threw |-> FALSE]
  ELSE IF isDirectory(d, p)
       THEN rmrfEach_keepDirs(d, p, readdirSync(d, p), bad, plat)
       ELSE unlinkSync(d, p, bad)

RECURSIVE rmrf(_, _, _, _)
RECURSIVE rmrfEach(_, _, _, _, _)
\* lines 27-29: the loop over the names of a directory; an exception ends it
rmrfEach(d, p, names, bad, plat) ==
  IF names = << >> THEN [disk |-> d, threw |-> FALSE]
  ELSE LET r == rmrf(d, p \o << Head(names) >>, bad, plat)
       IN  IF r.threw THEN r ELSE rmrfEach(r.disk, p, Tail(names), bad, plat)

\* lines 23-34: rmrf(p)
rmrf(d, p, bad, plat) ==
  IF ~existsSync(d, p) THEN [disk |-> d, threw |-> FALSE]
  ELSE IF isDirectory(d, p)
       THEN LET r == rmrfEach(d, p, readdirSync(d, p), bad, plat)
            IN  IF r.threw THEN r ELSE rmdirSync(r.disk, p, bad, plat)
       ELSE unlinkSync(d, p, bad)

\* lines 51-54: the body of the try of one entry; statSync raises for a link
\* whose target is missing
removeTop(d, p, bad, plat) ==
  IF ~existsSync(d, p) THEN [disk |-> d, threw |-> TRUE] ELSE rmrf(d, p, bad, plat)

\* the contents that are still on the tree
filesOn(fs, d) == [q \in { x \in DOMAIN fs : x \in DOMAIN d } |-> fs[q]]

CleanFrame == UNCHANGED << suiteVars, combineVars, flowVars, faulty, platform, diskAtStart >>

\* lines 38-41: no Temp directory
CleanNoTemp ==
  /\ cleanPc = "start"
  /\ ~existsSync(disk, tempDir)
  /\ cleanPc' = "done"
  /\ cleanExit' = << 0 >>
  /\ CleanFrame
  /\ UNCHANGED << files, disk, todo, errLog >>

\* line 43: readdirSync raises for a Temp that is no directory; lines 62-65
CleanNotDir ==
  /\ cleanPc = "start"
  /\ existsSync(disk, tempDir)
  /\ ~isDirectory(disk, tempDir)
  /\ cleanPc' = "done"
  /\ cleanExit' = << 1 >>
  /\ CleanFrame
  /\ UNCHANGED << files, disk, todo, errLog >>

\* lines 43-47: Temp is already empty
CleanEmpty ==
  /\ cleanPc = "start"
  /\ existsSync(disk, tempDir)
  /\ isDirectory(disk, tempDir)
  /\ readdirSync(disk, tempDir) = << >>
  /\ cleanPc' = "done"
  /\ cleanExit' = << 0 >>
  /\ CleanFrame
  /\ UNCHANGED << files, disk, todo, errLog >>

\* line 43: the entries of Temp
CleanList ==
  /\ cleanPc = "start"
  /\ existsSync(disk, tempDir)
  /\ isDirectory(disk, tempDir)
  /\ readdirSync(disk, tempDir) # << >>
  /\ todo' = readdirSync(disk, tempDir)
  /\ cleanPc' = "loop"
  /\ CleanFrame
  /\ UNCHANGED << files, disk, cleanExit, errLog >>

\* what one turn of the loop leaves
Removed(r, p) ==
  /\ disk' = r.disk
  /\ files' = filesOn(files, r.disk)
  /\ errLog' = IF r.threw THEN Append(errLog, p) ELSE errLog

\* lines 49-58: one turn of the loop
CleanEntry ==
  /\ cleanPc = "loop"
  /\ todo # << >>
  /\ Removed(removeTop(disk, tempDir \o << Head(todo) >>, faulty, platform),
             tempDir \o << Head(todo) >>)
  /\ todo' = Tail(todo)
  /\ CleanFrame
  /\ UNCHANGED << cleanPc, cleanExit >>

\* lines 60-61
CleanEnd ==
  /\ cleanPc = "loop"
  /\ todo = << >>
  /\ cleanPc' = "done"
  /\ cleanExit' = << 0 >>
  /\ CleanFrame
  /\ UNCHANGED << files, disk, todo, errLog >>

CleanSteps ==
  \/ CleanNoTemp
  \/ CleanNotDir
  \/ CleanEmpty
  \/ CleanList
  \/ CleanEntry
  \/ CleanEnd

(***************************************************************************)
(* The cleanup process on its own, started on every tree of up to          *)
(* MaxEntries entries below Temp, with up to MaxFaults entries that cannot *)
(* be removed                                                              *)
(***************************************************************************)
MaxEntries == 4   \* entries below Temp in SpecCleanup
MaxFaults  == 1   \* entries whose removal raises

\* a directory outside Temp with one file, and a path that does not exist
KeepDir  == ROOT \o << <<"K","e","e","p">> >>
KeepFile == KeepDir \o << <<"k",".","t","x","t">> >>
GoneDir  == ROOT \o << <<"G","o","n","e">> >>
Outside  == (KeepDir :> DirEntry) @@ (KeepFile :> FileEntry)

CleanNames == { <<"a">>, <<"b">> }
CleanPaths == UNION { [1..k -> CleanNames] : k \in 1..3 }
LeafKinds  == { FileEntry, DirEntry, LinkEntry(KeepDir), LinkEntry(GoneDir) }

\* the sets of paths below Temp that hold the directory of each of their paths
CleanShapes ==
  { S \in SUBSET CleanPaths :
      /\ Cardinality(S) <= MaxEntries
      /\ \A p \in S : Len(p) > 1 => DirOf(p) \in S }

LeavesOf(S) == { p \in S : \A q \in S : ~(Len(q) > Len(p) /\ IsPrefix(p, q)) }

\* the tree of the shape S below an entry for Temp: the paths with something
\* inside are directories, the others have the kinds of kinds
TreeOf(S, kinds, temp) ==
  [x \in { tempDir \o p : p \in S } |->
     LET p == SubSeq(x, Len(tempDir) + 1, Len(x))
     IN  IF p \in DOMAIN kinds THEN kinds[p] ELSE DirEntry]
  @@ (tempDir :> temp) @@ Outside

CleanTrees ==
  { Outside, (tempDir :> FileEntry) @@ Outside } \cup
  UNION { { TreeOf(S, kinds, DirEntry) : kinds \in [LeavesOf(S) -> LeafKinds] } :
          S \in CleanShapes }

InitCleanup ==
  /\ pc = "idle"
  /\ argv = NoArgs
  /\ execs = << >>
  /\ collection = << >>
  /\ testCases = << >>
  /\ stats = NoStats
  /\ folderRows = << >>
  /\ suiteApiSet = << >>
  /\ API_SUMMARY = << >>
  /\ html = << >>
  /\ files = << >>
  /\ exitCode = << >>
  /\ failure = "none"
  /\ runs = 0
  /\ filesAtStart = << >>
  /\ lastRender = << >>
  /\ cpc = "idle"
  /\ picked = << >>
  /\ allRows = << >>
  /\ grandUniqueSet = {}
  /\ uniqueByParent = << >>
  /\ softFailKeySet = {}
  /\ grandApiDisp = NoApiDisp
  /\ grandCase = NoCase
  /\ parentSections = << >>
  /\ combineExit = << >>
  /\ madeDirs = {}
  /\ disk \in CleanTrees
  /\ diskAtStart = disk
  /\ cleanPc = "start"
  /\ todo = << >>
  /\ cleanExit = << >>
  /\ errLog = << >>
  /\ faulty \in { F \in SUBSET { x \in DOMAIN disk : Len(x) > Len(tempDir) /\ IsPrefix(tempDir, x) } :
                    Cardinality(F) <= MaxFaults }
  /\ platform \in { "win32", "posix" }
  /\ stage = "off"
  /\ flowRun = 0
  /\ renderedBefore = << >>

NextCleanup == CleanSteps
SpecCleanup == InitCleanup /\ [][NextCleanup]_vars

(***************************************************************************)
(* run-all.ps1 (README.txt, lines 285-337): the orchestrated run.  Each    *)
(* stage is a synchronous call ("&"), which returns when the child has     *)
(* ended.  Node.js is taken to be installed (lines 304-307); the script is *)
(* PowerShell, so the platform is Windows.                                 *)
(***************************************************************************)
MaxFlows  == 2   \* orchestrated runs in one behaviour of SpecFlow
MaxSuites == 1   \* suite-report invocations per orchestrated run

\* the suite-report invocations my-script.txt can make
FlowArgs ==
  { NoArgs,
    Args(<< >>, DocFile(0), << >>),
    Args(RunData(<< E_bad >>), DocFile(0), << >>),
    Args(RunData(<< X_pass >>), DocFile(0), << >>),
    Args(RunData(<< X_fail >>), DocFile(1), << >>) }

\* the tree that holds the files fs: each file with the directories above
\* it, and the directories of the tree d, which mkdirSync made earlier
diskOf(fs, d) ==
  [x \in UNION { { SubSeq(p, 1, k) : k \in 1..Len(p) } : p \in DOMAIN fs } |->
     IF x \in DOMAIN fs THEN FileEntry ELSE DirEntry]
  @@ [x \in { y \in DOMAIN d : d[y].kind = "dir" } |-> DirEntry]

\* the entries below Temp
tempEntries(d) == { x \in DOMAIN d : Len(x) > Len(tempDir) /\ IsPrefix(tempDir, x) }

\* lines 284-288: a run begins; no process of an earlier run is left
FlowBegin ==
  /\ stage = "off"
  /\ flowRun < MaxFlows
  /\ pc \in { "idle", "exited" }
  /\ stage' = "suites"
  /\ flowRun' = flowRun + 1
  /\ renderedBefore' = lastRender
  /\ cpc' = "idle"
  /\ picked' = << >>
  /\ allRows' = << >>
  /\ grandUniqueSet' = {}
  /\ uniqueByParent' = << >>
  /\ softFailKeySet' = {}
  /\ grandApiDisp' = NoApiDisp
  /\ grandCase' = NoCase
  /\ parentSections' = << >>
  /\ combineExit' = << >>
  /\ cleanPc' = "idle"
  /\ todo' = << >>
  /\ cleanExit' = << >>
  /\ errLog' = << >>
  /\ diskAtStart' = << >>
  /\ faulty' = {}
  /\ UNCHANGED << suiteVars, files, madeDirs, disk, platform >>

\* lines 270-276, 288: the child PowerShell of STEP 1 runs the suites one
\* after the other
FlowSuite ==
  /\ stage = "suites"
  /\ runs < MaxSuites * flowRun
  /\ \E a \in FlowArgs : Start(a)

\* variant: STEP 3 does not wait for the child of STEP 1
FlowToCombine_noWait ==
  /\ stage = "suites"
  /\ stage' = "combine"
  /\ UNCHANGED << suiteVars, files, combineVars, cleanVars, flowRun, renderedBefore >>

\* lines 288, 309: STEP 1 has returned, node combine-email-report.js starts
FlowToCombine ==
  /\ stage = "suites"
  /\ pc \in { "idle", "exited" }
  /\ stage' = "combine"
  /\ UNCHANGED << suiteVars, files, combineVars, cleanVars, flowRun, renderedBefore >>

\* lines 310-319: node combine-email-report.js has returned; whatever its
\* exit code, node cleanup-temp.js starts.  Some entries of Temp may be
\* locked by another program
FlowToCleanup ==
  /\ stage = "combine"
  /\ combineExit # << >>
  /\ stage' = "cleanup"
  /\ disk' = diskOf(files, disk)
  /\ diskAtStart' = diskOf(files, disk)
  /\ cleanPc' = "start"
  /\ \E F \in SUBSET tempEntries(diskOf(files, disk)) :
       /\ Cardinality(F) <= MaxFaults
       /\ faulty' = F
  /\ UNCHANGED << suiteVars, files, combineVars, todo, cleanExit, errLog, platform,
                  flowRun, renderedBefore >>

\* lines 320-337: node cleanup-temp.js has returned, the run ends
FlowEnd ==
  /\ stage = "cleanup"
  /\ cleanExit # << >>
  /\ stage' = "off"
  /\ UNCHANGED << suiteVars, files, combineVars, cleanVars, flowRun, renderedBefore >>

\* the steps of the cleanup process when Temp, made by the suite-report
\* process, is a directory
FlowCleanSteps ==
  \/ CleanNoTemp
  \/ CleanEmpty
  \/ CleanList
  \/ CleanEntry
  \/ CleanEnd

NextFlow ==
  \/ FlowBegin
  \/ FlowSuite
  \/ Steps
  \/ FlowToCombine
  \/ stage = "combine" /\ CombineSteps
  \/ FlowToCleanup
  \/ stage = "cleanup" /\ FlowCleanSteps
  \/ FlowEnd

SpecFlow == Init /\ [][NextFlow]_vars

(***************************************************************************)
(* Properties                                                              *)
(***************************************************************************)
\* the process got past normalization / aggregation / rendering
HasCases == \/ pc \in { "built", "aggregated", "rendered", "wroteOut" }
            \/ pc = "exited" /\ failure \in { "none", "fs" }
HasStats == \/ pc \in { "aggregated", "rendered", "wroteOut" }
            \/ pc = "exited" /\ failure \in { "none", "fs" }
HasHtml  == \/ pc \in { "rendered", "wroteOut" }
            \/ pc = "exited" /\ failure \in { "none", "fs" }

\* "skip" as a whole word of s, in any letter case: the four letters are
\* neither preceded nor followed by a letter, a digit or an underscore
HasSkipWord(s) ==
  \E i \in 1..(Len(s) - 3) :
     /\ LowerStr(SubSeq(s, i, i + 3)) = <<"s", "k", "i", "p">>
     /\ (i = 1 \/ s[i - 1] \notin WordChars)
     /\ (i + 3 = Len(s) \/ s[i + 4] \notin WordChars)

\* the four letters "skip" anywhere in s, in any letter case
HasSkipLetters(s) ==
  \E i \in 1..(Len(s) - 3) : LowerStr(SubSeq(s, i, i + 3)) = <<"s", "k", "i", "p">>

\* some check of the case carries the whole-word marker in its name or message
SkipMarked(tc) ==
  \E i \in DOMAIN tc.checks :
     HasSkipWord(tc.checks[i].name) \/ HasSkipWord(tc.checks[i].message)

\* some assertion of the execution entry recorded an error
Errored(ex) == \E i \in DOMAIN ex[1].assertions : ex[1].assertions[i][1].error # << >>

\* C1: every execution entry is normalized to one test case with exactly one
\* outcome, chosen by first match: no entry -> Not Run; else a skip-marked
\* assertion -> Skipped (also when another assertion recorded an error); else
\* an assertion with a recorded error -> Fail; else Pass.  An entry without
\* assertions is Pass with checksTotal = 0.
C1_OutcomePrecedence ==
  HasCases =>
    /\ Len(testCases) = Len(execs)
    /\ \A k \in DOMAIN testCases :
         LET ex == execs[k]
             tc == testCases[k]
         IN  /\ tc.result = IF ex = << >> THEN "Not Run"
                            ELSE IF SkipMarked(tc) THEN "Skipped"
                            ELSE IF Errored(ex) THEN "Fail"
                            ELSE "Pass"
             /\ (ex # << >> /\ ex[1].assertions = << >>)
                  => (tc.result = "Pass" /\ tc.checksTotal = 0)

\* C1 witness: a case with a skip-marked assertion and a failed assertion is
\* Skipped, and a case without assertions is Pass
C1_Witness ==
  /\ HasCases
  /\ \E k \in DOMAIN testCases :
       /\ testCases[k].result = "Skipped"
       /\ testCases[k].checksFailed > 0
       /\ \E i \in DOMAIN testCases[k].checks :
            testCases[k].checks[i].ok /\ HasSkipWord(testCases[k].checks[i].name)

\* C3 (as stated): a case is Skipped whenever an assertion name or failure
\* message contains the letters "skip" anywhere, in any letter case
C3_AnySubstringSkips ==
  HasCases =>
    \A k \in DOMAIN testCases :
      (\E i \in DOMAIN testCases[k].checks :
          \/ HasSkipLetters(testCases[k].checks[i].name)
          \/ HasSkipLetters(testCases[k].checks[i].message))
        => testCases[k].result = "Skipped"

\* C3 (amended): a case is Skipped exactly when an assertion name or failure
\* message contains "skip" as a whole word, in any letter case; the letters
\* inside a longer word ("Skipped", "SKIPPING", "autoskip", "skip_x") do not
\* mark the case
C3_WholeWordSkips ==
  HasCases =>
    \A k \in DOMAIN testCases :
      execs[k] # << >> =>
        (testCases[k].result = "Skipped" <=>
           \E i \in DOMAIN testCases[k].checks :
              \/ HasSkipWord(testCases[k].checks[i].name)
              \/ HasSkipWord(testCases[k].checks[i].message))

\* C3 witness: a case marked by the word inside a phrase, in mixed case, is
\* Skipped
C3_Witness ==
  /\ HasCases
  /\ \E k \in DOMAIN testCases :
       /\ testCases[k].result = "Skipped"
       /\ \E i \in DOMAIN testCases[k].checks :
            testCases[k].checks[i].name = <<"t","o"," ","S","k","i","p"," ","i","t">>
       /\ \A i \in DOMAIN testCases[k].checks :
            testCases[k].checks[i].name # <<"s","k","i","p">>

\* the snapshots of a case without request and response
EmptyBody == [ kind |-> "empty", text |-> << >> ]
EmptyReqObj == [ method |-> << >>, url |-> << >>, headers |-> << >>, body |-> EmptyBody ]
EmptyResObj == [ code |-> << >>, status |-> << >>, headers |-> << >>, body |-> EmptyBody ]

\* C4: a position of the executions sequence that holds no execution record
\* never makes normalization raise, and yields a Not Run case with the
\* default group and API names and empty snapshots; the other positions are
\* normalized as they are on their own
C4_NullEntryIsNotRun ==
  /\ failure = "exception" =>
       \E k \in DOMAIN execs :
          /\ execs[k] # << >>
          /\ \E i \in DOMAIN execs[k][1].assertions : execs[k][1].assertions[i] = << >>
  /\ HasCases =>
       /\ Len(testCases) = Len(execs)
       /\ \A k \in DOMAIN testCases :
            LET tc == testCases[k] IN
            IF execs[k] = << >>
            THEN /\ tc.result = "Not Run"
                 /\ tc.group = <<"R","e","q","u","e","s","t">>
                 /\ tc.api = <<"R","e","q","u","e","s","t">>
                 /\ tc.reqObj = EmptyReqObj
                 /\ tc.resObj = EmptyResObj
                 /\ tc.checks = << >>
                 /\ tc.checksTotal = 0
            ELSE /\ tc.result # "Not Run"
                 /\ tc.checksTotal = Len(execs[k][1].assertions)
                 /\ execs[k][1].item # << >> => tc.api = execs[k][1].item
                 /\ tc.respMs = (IF execs[k][1].response = << >> THEN << >>
                                 ELSE execs[k][1].response[1].responseTime)

\* C4 witness: a run with a missing entry between recorded ones got normalized
C4_Witness ==
  /\ HasCases
  /\ Len(execs) = 3
  /\ execs[2] = << >>
  /\ testCases[1].result = "Fail"
  /\ testCases[3].result = "Pass"

\* positions of the Pass / Fail cases, and counts over them
PassFail == { k \in DOMAIN testCases : testCases[k].result \in { "Pass", "Fail" } }
Passes   == { k \in DOMAIN testCases : testCases[k].result = "Pass" }
Fails    == { k \in DOMAIN testCases : testCases[k].result = "Fail" }

\* pct is 100*part/whole rounded to the nearest integer, halves up; 0 for whole = 0
IsRoundedPct(pct, part, whole) ==
  IF whole = 0 THEN pct = 0
  ELSE /\ 2 * pct * whole <= 200 * part + whole
       /\ 200 * part + whole < 2 * (pct + 1) * whole

\* the execution entry has n assertions, none with an error / all with one
AllPassing(ex, n) ==
  /\ Len(ex[1].assertions) = n
  /\ \A i \in 1..n : ex[1].assertions[i] # << >> /\ ex[1].assertions[i][1].error = << >>
AllFailing(ex, n) ==
  /\ Len(ex[1].assertions) = n
  /\ \A i \in 1..n : ex[1].assertions[i] # << >> /\ ex[1].assertions[i][1].error # << >>
TimeOf(ex) == IF ex[1].response = << >> THEN << >> ELSE ex[1].response[1].responseTime

\* the run of the scenario: (a) two passing assertions, 400 ms; (b) one
\* failing assertion, 1500 ms; (c) no assertions, no response; SLA 1000 ms
Scenario ==
  /\ Len(execs) = 3
  /\ \A k \in 1..3 : execs[k] # << >>
  /\ AllPassing(execs[1], 2) /\ TimeOf(execs[1]) = << 400 >>
  /\ AllFailing(execs[2], 1) /\ TimeOf(execs[2]) = << 1500 >>
  /\ AllPassing(execs[3], 0) /\ execs[3][1].response = << >>
  /\ SLA_MS = 1000

\* C2 (as stated): in the scenario execution (c) is left out: totalCases = 2,
\* passedCases = 1, failedCases = 1, passPct = 50, withinSLA = 1, withinPct = 50
C2_ScenarioExcludesEmptyCase ==
  (HasStats /\ Scenario) =>
    stats = [ totalCases |-> 2, passedCases |-> 1, failedCases |-> 1, passPct |-> 50,
              withinSLA |-> 1, withinPct |-> 50 ]

\* C2 (amended): in the scenario execution (c) is a Pass case and is counted:
\* totalCases = 3, passedCases = 2, failedCases = 1, passPct = 67,
\* withinSLA = 1, withinPct = 33
C2_ScenarioCountsEmptyCase ==
  (HasStats /\ Scenario) =>
    /\ testCases[3].result = "Pass"
    /\ stats = [ totalCases |-> 3, passedCases |-> 2, failedCases |-> 1, passPct |-> 67,
                 withinSLA |-> 1, withinPct |-> 33 ]

\* C2 witness: the statistics of the scenario run were computed
C2_Witness == HasStats /\ Scenario /\ stats.totalCases > 0

\* C5: for every folder, and every API within a folder, total = pass + fail
\* with pass and fail the numbers of its Pass and Fail cases, and the pass
\* rate is round(100*pass/total) (0 for total = 0), an integer in [0,100];
\* every folder that has a Pass or Fail case has a summary
C5_FolderAndApiTotals ==
  HasStats =>
    /\ \A k \in PassFail : \E i \in DOMAIN folderRows : folderRows[i].group = testCases[k].group
    /\ \A i \in DOMAIN folderRows :
         LET r == folderRows[i] IN
         /\ r.pass = Cardinality({ k \in Passes : testCases[k].group = r.group })
         /\ r.fail = Cardinality({ k \in Fails : testCases[k].group = r.group })
         /\ r.total = r.pass + r.fail
         /\ IsRoundedPct(r.passPct, r.pass, r.total)
         /\ r.passPct \in 0..100
    /\ \A i \in DOMAIN API_SUMMARY :
         \A j \in DOMAIN API_SUMMARY[i].apis :
           LET g == API_SUMMARY[i].group
               a == API_SUMMARY[i].apis[j]
           IN  /\ a.pass = Cardinality({ k \in Passes : testCases[k].group = g
                                                        /\ testCases[k].api = a.api })
               /\ a.fail = Cardinality({ k \in Fails : testCases[k].group = g
                                                       /\ testCases[k].api = a.api })
               /\ a.tot = a.pass + a.fail
               /\ IsRoundedPct(a.pct, a.pass, a.tot)
               /\ a.pct \in 0..100

\* C5 witness: a folder with two Pass cases and one Fail case, rate 67
C5_Witness ==
  /\ HasStats
  /\ \E i \in DOMAIN folderRows :
       /\ folderRows[i].pass = 2
       /\ folderRows[i].fail = 1
       /\ folderRows[i].passPct = 67
       /\ Len(API_SUMMARY[i].apis) = 2

RECURSIVE SumTimes(_)
\* the sum of the response times of the cases at the positions K
SumTimes(K) ==
  IF K = {} THEN 0
  ELSE LET k == CHOOSE x \in K : TRUE
       IN  testCases[k].respMs[1] + SumTimes(K \ { k })

\* m is sum/n rounded to the nearest integer, halves up; 0 for n = 0
IsRoundedMean(m, sum, n) ==
  IF n = 0 THEN m = 0
  ELSE 2 * m * n <= 2 * sum + n /\ 2 * sum + n < 2 * (m + 1) * n

\* C6: Skipped and Not Run cases contribute to no statistic: the totals, the
\* pass rate, the SLA rate, every folder and API summary, the average
\* response time and the API registry are those of the Pass/Fail cases
\* alone; a folder or API without a Pass/Fail case has no summary
C6_SkippedNotRunExcluded ==
  HasStats =>
    /\ stats.totalCases = Cardinality(PassFail)
    /\ stats.passedCases = Cardinality(Passes)
    /\ stats.failedCases = Cardinality(Fails)
    /\ IsRoundedPct(stats.passPct, Cardinality(Passes), Cardinality(PassFail))
    /\ stats.withinSLA <= Cardinality(PassFail)
    /\ IsRoundedPct(stats.withinPct, stats.withinSLA, Cardinality(PassFail))
    /\ { folderRows[i].group : i \in DOMAIN folderRows }
         = { testCases[k].group : k \in PassFail }
    /\ \A i \in DOMAIN folderRows :
         LET inG   == { k \in PassFail : testCases[k].group = folderRows[i].group }
             timed == { k \in inG : testCases[k].respMs # << >> }
         IN  /\ folderRows[i].total = Cardinality(inG)
             /\ folderRows[i].total > 0
             /\ Len(folderRows[i].apis) = Cardinality(inG)
             /\ IsRoundedMean(folderRows[i].avgMs, SumTimes(timed), Cardinality(timed))
    /\ \A i \in DOMAIN API_SUMMARY :
         /\ { API_SUMMARY[i].apis[j].api : j \in DOMAIN API_SUMMARY[i].apis }
              = { testCases[k].api : k \in { x \in PassFail :
                                               testCases[x].group = API_SUMMARY[i].group } }
         /\ \A j \in DOMAIN API_SUMMARY[i].apis : API_SUMMARY[i].apis[j].tot > 0
    /\ Range(suiteApiSet) = { pretty(testCases[k].api) : k \in PassFail }

\* C6 witness: a timed Skipped case whose folder has no summary, a Not Run
\* case and a summarized folder in one run
C6_Witness ==
  /\ HasStats
  /\ folderRows # << >>
  /\ \E k \in DOMAIN testCases : testCases[k].result = "Not Run"
  /\ \E k \in DOMAIN testCases :
       /\ testCases[k].result = "Skipped"
       /\ testCases[k].respMs # << >>
       /\ \A i \in DOMAIN folderRows : folderRows[i].group # testCases[k].group

\* C7: a Pass/Fail case is within the SLA exactly when it has a response
\* time t with t <= SLA_MS (t = SLA_MS counts, t = SLA_MS + 1 and a missing
\* time do not); withinPct = round(100*withinSLA/totalCases), 0 without cases
C7_SlaBoundary ==
  HasStats =>
    /\ stats.withinSLA =
         Cardinality({ k \in PassFail : \E t \in 0..SLA_MS : testCases[k].respMs = << t >> })
    /\ IsRoundedPct(stats.withinPct, stats.withinSLA, Cardinality(PassFail))

\* C7 witness: cases at the threshold, one millisecond over it and without a
\* response time; only the first is within the SLA
C7_Witness ==
  /\ HasStats
  /\ Cardinality(PassFail) = 3
  /\ \E k \in PassFail : testCases[k].respMs = << SLA_MS >>
  /\ \E k \in PassFail : testCases[k].respMs = << SLA_MS + 1 >>
  /\ \E k \in PassFail : testCases[k].respMs = << >>
  /\ stats.withinSLA = 1
  /\ stats.withinPct = 33

\* C8: when the input run JSON cannot be read or parsed, the invocation ends
\* with a non-zero exit status and has created or overwritten no file:
\* neither the primary output document nor the Temp copy
C8_InputErrorWritesNothing ==
  (argv.given /\ argv.input = << >>) =>
    /\ files = filesAtStart
    /\ pc \in { "args", "exited" }
    /\ pc = "exited" => (exitCode # << >> /\ exitCode # << 0 >>)

\* C8 witness: an invocation with an unreadable input ended while an earlier
\* render of the same output path and identity is on disk
C8_Witness ==
  /\ pc = "exited"
  /\ argv.given
  /\ argv.input = << >>
  /\ argv.outFile \in DOMAIN files
  /\ << SUITE_PARENT, N_M >> \in DOMAIN lastRender

\* the documents under the Temp directory
TempPaths ==
  { q \in DOMAIN files : Len(q) > 3 /\ SubSeq(q, 1, 3) = << N_drive, N_root, <<"T","e","m","p">> >> }

\* C9: after any sequence of renders, for each suite identity (groupingKey,
\* moduleKey) that completed a render the Temp directory holds exactly one
\* document, at Temp/<groupingKey>/<moduleKey>_latest.html, equal to the
\* primary output of the latest completed render of that identity
C9_TempHoldsLatestRender ==
  /\ \A id \in DOMAIN lastRender :
       LET q == << N_drive, N_root, <<"T","e","m","p">>, id[1],
                   id[2] \o <<"_","l","a","t","e","s","t",".","h","t","m","l">> >>
       IN  q \in DOMAIN files /\ files[q] = lastRender[id].doc
  /\ Cardinality(TempPaths) = Cardinality(DOMAIN lastRender)

\* C9 witness: two identities have a Temp document, one of them rendered
\* twice with different documents
C9_Witness ==
  /\ pc = "exited"
  /\ failure = "none"
  /\ Cardinality(DOMAIN lastRender) = 2
  /\ lastRender[<< SUITE_PARENT, SUITE_MODULE >>].renders = 2
  /\ \E q \in DOMAIN filesAtStart :
       /\ q = tempFileOf(SUITE_PARENT, SUITE_MODULE)
       /\ filesAtStart[q] # files[q]

\* C10: the set of API names the aggregator extracts from the suite-apis
\* registry of a rendered suite document equals the set of API names the
\* builder embedded
C10_RegistryRoundTrip ==
  HasHtml => Range(extractSuiteApis(html)) = Range(suiteApiSet)

\* the parsed rows carry the numbers of the folder summaries, one for one
RowsAgree(rows, frs) ==
  /\ Len(rows) = Len(frs)
  /\ \A i \in DOMAIN rows :
       /\ rows[i].pass = frs[i].pass
       /\ rows[i].fail = frs[i].fail
       /\ rows[i].total = frs[i].total
       /\ rows[i].passPct = frs[i].passPct
       /\ rows[i].avg = frs[i].avgMs

\* C11: every folder-summary row the builder renders, whatever its counts, is
\* parsed by the aggregator as exactly one row with the same pass, fail,
\* total, pass-percent and average-response values, and nothing else of the
\* document is parsed as a row.
C11_RowsRoundTrip ==
  /\ pc = "parsed" => RowsAgree(allRows, folderRows)
  /\ pc = "rendered" => RowsAgree(parseSuiteRows(html), folderRows)

\* the same, for folder summaries whose counts are all below 1000
C11_SmallRowsRoundTrip ==
  (\A i \in DOMAIN folderRows : folderRows[i].pass < 1000 /\ folderRows[i].fail < 1000
                                /\ folderRows[i].total < 1000)
  => C11_RowsRoundTrip

\* a text without the characters esc rewrites
IsPlainText(s) == \A i \in DOMAIN s : s[i] \notin {"&", "<", ">", "\"", "'"}

\* C12: the (parent, module) pair the aggregator extracts from the metadata of
\* a rendered suite document is the pair the builder derived from the output
\* path and used to name the Temp copy, whatever the text of the segments.
C12_IdentityRoundTrip ==
  pc \in { "rendered", "wroteOut" } =>
    << extractParent(html), extractModule(html) >> = << SUITE_PARENT, SUITE_MODULE >>

\* the same, for identities free of the characters esc rewrites
C12_PlainIdentityRoundTrip ==
  IsPlainText(SUITE_PARENT) /\ IsPlainText(SUITE_MODULE) => C12_IdentityRoundTrip

(***************************************************************************)
(* Properties of the combined rollup                                       *)
(***************************************************************************)
RolledUp == cpc \in { "built", "done", "writeFailed" }
RowsOfParent(p) == SelectSeq(allRows, LAMBDA r : r.parent = p)
RowsNamed(rows, n) == SelectSeq(rows, LAMBDA r : r.api = n)
NamesOf(rows) == { rows[i].api : i \in DOMAIN rows }
PassSum(rows)  == SumSeq([i \in 1..Len(rows) |-> rows[i].pass])
FailSum(rows)  == SumSeq([i \in 1..Len(rows) |-> rows[i].fail])
TotalSum(rows) == SumSeq([i \in 1..Len(rows) |-> rows[i].total])

\* the API name n, summed over every row of the grouping that carries it,
\* has cases and no failure
NamePassed(rows, n) ==
  TotalSum(RowsNamed(rows, n)) > 0 /\ FailSum(RowsNamed(rows, n)) = 0

\* C13: the rows of one API name under one grouping are summed, whichever
\* module documents they come from, and the passed-API count of the grouping
\* counts exactly the names whose summed total is positive and whose summed
\* fail count is 0
C13_SummedAcrossDocuments ==
  RolledUp =>
    \A k \in DOMAIN parentSections :
      LET rows == RowsOfParent(parentSections[k].parent)
      IN  parentSections[k].pApiDisp.passed =
            Cardinality({ n \in NamesOf(rows) : NamePassed(rows, n) })

\* the documents the combine process scanned
ScannedDocs == { files[picked[i]] : i \in DOMAIN picked }

\* the API names a document contributes: those of its embedded registry,
\* those of its summary rows when the registry is absent or empty
DocNames(doc) ==
  LET registry == extractSuiteApis(doc)
      rows     == parseSuiteRows(doc)
  IN  IF registry # << >> THEN Range(registry)
      ELSE { Trim(rows[i].api) : i \in DOMAIN rows } \ { << >> }

\* the distinct API names over the scanned documents of grouping p
GroupNames(p) == UNION { DocNames(d) : d \in { x \in ScannedDocs : extractParent(x) = p } }

ScannedParents == { extractParent(d) : d \in ScannedDocs }

RECURSIVE SumOver(_, _)
\* the sum of f[x] over the set S
SumOver(f, S) ==
  IF S = {} THEN 0 ELSE LET x == CHOOSE y \in S : TRUE IN f[x] + SumOver(f, S \ {x})

\* C14: the unique-API count of a grouping is the number of distinct API
\* names over the documents of the grouping, taken from each document's
\* registry and from its rows only when the registry is empty; the global
\* count adds the counts of the groupings, so a name under two groupings
\* counts twice; each module table lists the summary rows of its module, one
\* table row per summary row
C14_UniqueFromRegistry ==
  RolledUp =>
    /\ \A k \in DOMAIN parentSections :
         LET p == parentSections[k].parent IN
         /\ parentSections[k].pApiDisp.unique = Cardinality(GroupNames(p))
         /\ \A b \in DOMAIN parentSections[k].modules :
              LET blk  == parentSections[k].modules[b]
                  mine == SelectSeq(RowsOfParent(p), LAMBDA r : r.module = blk.module)
              IN  /\ Len(blk.rows) = Len(mine)
                  /\ \A i \in DOMAIN mine : blk.rows[i].api = esc(mine[i].api)
    /\ grandApiDisp.unique =
         SumOver([p \in ScannedParents |-> Cardinality(GroupNames(p))], ScannedParents)

\* the API x has one row in two modules of grouping P and one row under
\* grouping Q: P counts it once, the global count is 2, the tables of both
\* modules of P show it
C14_Witness ==
  /\ cpc = "done"
  /\ Len(picked) = 3
  /\ Len(parentSections) = 2
  /\ parentSections[1].parent = N_P
  /\ parentSections[1].pApiDisp.unique = 1
  /\ Len(parentSections[1].modules) = 2
  /\ \A b \in 1..2 : /\ Len(parentSections[1].modules[b].rows) = 1
                     /\ parentSections[1].modules[b].rows[1].api = N_x
  /\ parentSections[2].parent = N_Q
  /\ parentSections[2].modules[1].rows[1].api = N_x
  /\ grandApiDisp.unique = 2

\* a document whose registry cannot be read contributes the names of its rows
C14_FallbackWitness ==
  /\ cpc = "done"
  /\ \E d \in ScannedDocs : extractSuiteApis(d) = << >> /\ parseSuiteRows(d) # << >>
  /\ grandApiDisp.unique > 0

\* the percentage shown by a rate text such as "50%"
RateOf(rate) == StrToNat(SubSeq(rate, 1, Len(rate) - 1))

\* passed <= unique, failed = unique - passed and 0 <= rate <= 100
TilesConsistent(d) ==
  /\ d.passed <= d.unique
  /\ d.failed = d.unique - d.passed
  /\ d.passed + d.failed = d.unique
  /\ RateOf(d.rate) >= 0
  /\ RateOf(d.rate) <= 100

\* C15: in the global rollup and in every per-grouping rollup the passed-API
\* count never exceeds the unique-API count, failed = unique - passed, and
\* the API pass percentage lies between 0 and 100
C15_ApiTilesConsistent ==
  RolledUp =>
    /\ TilesConsistent(grandApiDisp)
    /\ \A k \in DOMAIN parentSections : TilesConsistent(parentSections[k].pApiDisp)

\* the percentage round(100 * part / whole), 0 for an empty whole
RoundedPct(part, whole) == IF whole = 0 THEN 0 ELSE RoundDiv(100 * part, whole)

\* the case tiles c are the sums over rows, with the rounded percentage
CaseTilesOf(c, rows) ==
  /\ c.total = TotalSum(rows)
  /\ c.pass = PassSum(rows)
  /\ c.fail = FailSum(rows)
  /\ RateOf(c.rate) = RoundedPct(PassSum(rows), TotalSum(rows))

\* C16: the global case tiles are the sums of total, pass and fail over all
\* parsed rows, the tiles of a grouping the sums over its rows, the tiles of
\* the groupings add up to the global ones, and each case-level percentage
\* is round(100 * pass / total) of its sums
C16_CaseRollupIsSum ==
  RolledUp =>
    /\ CaseTilesOf(grandCase, allRows)
    /\ \A k \in DOMAIN parentSections :
         CaseTilesOf(parentSections[k].pCase, RowsOfParent(parentSections[k].parent))
    /\ grandCase.total = SumSeq([k \in 1..Len(parentSections) |-> parentSections[k].pCase.total])
    /\ grandCase.pass = SumSeq([k \in 1..Len(parentSections) |-> parentSections[k].pCase.pass])
    /\ grandCase.fail = SumSeq([k \in 1..Len(parentSections) |-> parentSections[k].pCase.fail])

\* the sums alone, without the percentages
C16_CaseSumsOnly ==
  RolledUp =>
    /\ grandCase.total = TotalSum(allRows)
    /\ grandCase.pass = PassSum(allRows)
    /\ grandCase.fail = FailSum(allRows)
    /\ \A k \in DOMAIN parentSections :
         LET rows == RowsOfParent(parentSections[k].parent)
         IN  /\ parentSections[k].pCase.total = TotalSum(rows)
             /\ parentSections[k].pCase.pass = PassSum(rows)
             /\ parentSections[k].pCase.fail = FailSum(rows)
    /\ grandCase.total = SumSeq([k \in 1..Len(parentSections) |-> parentSections[k].pCase.total])

(***************************************************************************)
(* Soft failures                                                           *)
(***************************************************************************)
\* the marker <+ --> Failing> (any letter case) inside a text as the builder
\* renders it
HasSoftMarker(s) == s # << >> /\ softIn(esc(s), 1, Len(esc(s)))

\* a Pass/Fail case one of whose assertion names or failure messages carries
\* the marker
SoftCase(tc) ==
  /\ tc.result \in { "Pass", "Fail" }
  /\ \E i \in DOMAIN tc.checks :
        \/ HasSoftMarker(tc.checks[i].name)
        \/ ~tc.checks[i].ok /\ HasSoftMarker(tc.checks[i].message)

\* the names of the highlighted rows of module m under grouping p
HighlightedRows(p, m) ==
  UNION { UNION { { r.api : r \in { x \in Range(b.rows) : x.style = T_softStyle } } :
                  b \in { y \in Range(s.modules) : y.module = m } } :
          s \in { z \in Range(parentSections) : z.parent = p } }

\* the renders whose Temp documents the combine process scanned
ScannedRenders ==
  { id \in DOMAIN lastRender :
      /\ tempFileOf(id[1], id[2]) \in Range(picked)
      /\ files[tempFileOf(id[1], id[2])] = lastRender[id].doc }

\* the API of case tc is flagged and highlighted, under its own name or under
\* the name of its folder row
SoftShown(id, tc) ==
  \E n \in { pretty(tc.api), pretty(tc.group) } :
     /\ (id[1] \o <<"|">> \o id[2] \o <<"|">> \o n) \in softFailKeySet
     /\ esc(n) \in HighlightedRows(id[1], id[2])

\* C17: every API of a scanned suite document that has a Pass/Fail case whose
\* assertion name or failure message carries the marker <+ --> Failing> has its
\* grouping|module|name key flagged by the aggregator and its row highlighted
\* in the combined dashboard.
C17_SoftMarkerFlagsApi ==
  cpc \in { "built", "done" } =>
    \A id \in ScannedRenders :
       \A tc \in Range(lastRender[id].cases) : SoftCase(tc) => SoftShown(id, tc)

\* the marker of a request that is its own folder is found and shown
C17_FlaggedCase ==
  /\ cpc = "done"
  /\ \E id \in ScannedRenders :
        \E tc \in Range(lastRender[id].cases) :
           SoftCase(tc) /\ tc.api = N_x /\ SoftShown(id, tc)

(***************************************************************************)
(* Nothing to combine                                                      *)
(***************************************************************************)
\* the files below the EmailReports directory
EmailFiles == { p \in DOMAIN files : Len(p) > Len(EMAIL_ROOT)
                                       /\ SubSeq(p, 1, Len(EMAIL_ROOT)) = EMAIL_ROOT }

\* C18: when the combine process finds no suite document below Temp, it makes
\* no directory, writes no dashboard and no email fragment, and ends with
\* status 0.
C18_NothingToCombine ==
  (cpc # "idle" /\ findSuiteHtmls(files, TEMP_ROOT) = {}) =>
     /\ cpc = "nothing"
     /\ madeDirs = {}
     /\ EmailFiles = {}
     /\ picked = << >>
     /\ combineExit = << 0 >>

\* the combine process ran after a render that left no Temp document
C18_Witness ==
  /\ cpc = "nothing"
  /\ runs > 0
  /\ DOMAIN files # {}
  /\ findSuiteHtmls(files, TEMP_ROOT) = {}
  /\ combineExit = << 0 >>

(***************************************************************************)
(* A document that cannot be read                                          *)
(***************************************************************************)
\* the combine process has ended
CombineEnded == combineExit # << >>

\* C19: when reading one of several discovered suite documents fails, the
\* combine process still ends having written the combined dashboard and the
\* email fragments from the other documents.
C19_FailedDocumentSkipped ==
  (CombineEnded /\ cpc = "threw" /\ Len(picked) > 1) =>
     /\ EmailFiles # {}
     /\ madeDirs # {}
     /\ combineExit = << 0 >>

(***************************************************************************)
(* The order of the scan                                                   *)
(***************************************************************************)
\* the orders of the positions 1..n
Orders(n) == { o \in [1..n -> 1..n] : \A i, j \in 1..n : i # j => o[i] # o[j] }

\* the figures of the rollup of the scan results taken in the given order:
\* the global tiles, the tiles of each grouping and the flagged keys
RollupOf(scans) ==
  LET acc      == foldScans(scans)
      sections == buildParentSections(acc.allRows, acc.uniqueByParent, acc.softFailKeySet)
  IN  [ api    |-> apiDisp(Cardinality(acc.grandUniqueSet), acc.allRows),
        case   |-> aggregateCaseStats(acc.allRows),
        groups |-> { [ parent |-> s.parent, api |-> s.pApiDisp, case |-> s.pCase ] :
                     s \in Range(sections) },
        soft   |-> acc.softFailKeySet ]

\* the same figures as the combine process holds them
RollupHeld ==
  [ api    |-> grandApiDisp,
    case   |-> grandCase,
    groups |-> { [ parent |-> s.parent, api |-> s.pApiDisp, case |-> s.pCase ] :
                 s \in Range(parentSections) },
    soft   |-> softFailKeySet ]

\* the figures for every order of the given scan results
RollupsOf(scans) ==
  { RollupOf([i \in 1..Len(scans) |-> scans[o[i]]]) : o \in Orders(Len(scans)) }

\* C20: the unique/passed/failed API counts, the API and case percentages, the
\* case totals (globally and per grouping) and the flagged keys that the
\* combine process holds are those of every order in which the same documents
\* could have been scanned.
C20_OrderIndependent ==
  RolledUp =>
    RollupsOf([i \in 1..Len(picked) |-> scanFile(files[picked[i]])]) = { RollupHeld }

\* three documents of two groupings, scanned in an order that is not the
\* sorted one, with a flagged key and a failed case among them
C20_Witness ==
  /\ cpc = "done"
  /\ Len(picked) = 3
  /\ LessCode(picked[2][Len(picked[2])], picked[1][Len(picked[1])])
  /\ Len(parentSections) = 2
  /\ softFailKeySet # {}
  /\ grandCase.fail > 0
  /\ grandApiDisp.passed > 0

(***************************************************************************)
(* The request/response snapshot                                           *)
(***************************************************************************)
\* every element of the assertions arrays of the run is an object
AssertionsWellFormed ==
  \A i \in DOMAIN execs : \A j \in DOMAIN assertionsOf(execs[i]) :
     assertionsOf(execs[i])[j] # << >>

\* C25: whatever the shape of the request, its headers and its body, building
\* the cases raises nothing: a run whose assertions are well formed never ends
\* with an exception.
C25_SnapshotNeverRaises ==
  AssertionsWellFormed => failure # "exception"

\* a body in urlencoded mode whose array is well formed is captured as the
\* joined pairs
C25_FormCaptured ==
  /\ pc = "exited"
  /\ failure = "none"
  /\ Len(testCases) = 1
  /\ testCases[1].reqObj.body = [kind |-> "text", text |-> <<"k","=","v","&","a","=","b">>]
  /\ DOMAIN testCases[1].reqObj.headers = {}

(***************************************************************************)
(* Case identifiers                                                        *)
(***************************************************************************)
\* the request/response snapshot of a case
SnapshotOf(tc) == << tc.reqObj, tc.resObj >>

\* C28: within one suite, two cases with different snapshots never carry the
\* same identifier, so the payload found by an identifier is the snapshot of
\* the case that asked for it.
C28_CaseIdsDistinct ==
  \A i, j \in DOMAIN testCases :
     SnapshotOf(testCases[i]) # SnapshotOf(testCases[j]) => testCases[i].id # testCases[j].id

\* two cases of different APIs and iterations have different identifiers
C28_DistinctIds ==
  /\ pc = "exited"
  /\ failure = "none"
  /\ Len(testCases) = 2
  /\ testCases[1].id # testCases[2].id
  /\ testCases[1].api = testCases[2].api

(***************************************************************************)
(* The names of the folder rows                                            *)
(***************************************************************************)
\* the rows the aggregator parsed from the rendered table
ParsedRows == IF pc = "parsed" THEN allRows ELSE parseSuiteRows(html)

\* C27: the name parsed for a folder row is the display name the builder
\* rendered for that folder, so that two folders with distinct display names
\* never get the same parsed name (hence never the same aggregate key).
C27_RowNamesRoundTrip ==
  (pc \in { "table", "parsed" } /\ Len(ParsedRows) = Len(folderRows)) =>
     /\ \A i \in DOMAIN folderRows : ParsedRows[i].api = folderRows[i].pretty
     /\ \A i, j \in DOMAIN folderRows :
          folderRows[i].pretty # folderRows[j].pretty =>
            rowKey(ParsedRows[i]) # rowKey(ParsedRows[j])

\* the same, for display names that neither end in a number nor hold a
\* character that esc rewrites
C27_PlainNamesRoundTrip ==
  (\A i \in DOMAIN folderRows :
      /\ IsPlainText(folderRows[i].pretty)
      /\ stripCounter(folderRows[i].pretty) = folderRows[i].pretty)
  => C27_RowNamesRoundTrip

\* some assertion name or failure message of the case carries the marker
MarkedCase(tc) ==
  \E i \in DOMAIN tc.checks :
     \/ HasSoftMarker(tc.checks[i].name)
     \/ ~tc.checks[i].ok /\ HasSoftMarker(tc.checks[i].message)

\* the names under which the rows of the document of render id are flagged
FlaggedNames(id) ==
  { allRows[i].api : i \in { j \in DOMAIN allRows :
                               /\ allRows[j].parent = id[1]
                               /\ allRows[j].module = id[2]
                               /\ rowKey(allRows[j]) \in softFailKeySet } }

\* C26: a key is flagged only for an API (or folder) of the document one of
\* whose own cases carries the marker, whatever the other APIs of the document
\* carry.
C26_NoFalseSoftFlag ==
  cpc \in { "built", "done" } =>
    \A id \in ScannedRenders :
       \A n \in FlaggedNames(id) :
          \E tc \in Range(lastRender[id].cases) :
             /\ n \in { pretty(tc.api), pretty(tc.group) }
             /\ MarkedCase(tc)

\* a document with a marked API and an unmarked one of another name: only the
\* marked one is flagged
C26_OtherApiNotFlagged ==
  /\ cpc = "done"
  /\ Len(picked) = 1
  /\ Len(allRows) = 2
  /\ allRows[1].api = <<"A">>
  /\ allRows[2].api = N_x
  /\ Cardinality(softFailKeySet) = 1
  /\ rowKey(allRows[2]) \in softFailKeySet

(***************************************************************************)
(* The cleanup process                                                     *)
(***************************************************************************)
\* the entries below Temp on the tree d
BelowTemp(d) == { x \in DOMAIN d : Len(x) > Len(tempDir) /\ IsPrefix(tempDir, x) }

\* d holds Temp as a directory, and below it directories and files only
PlainTempTree(d) ==
  /\ tempDir \in DOMAIN d
  /\ d[tempDir].kind = "dir"
  /\ \A x \in BelowTemp(d) : d[x].kind \in { "dir", "file" }

\* C22: started on an existing Temp directory that holds any tree of nested
\* directories and files, none of which refuses its removal, the cleanup
\* process ends with Temp still present and nothing inside it.
C22_TempEmptiedAndKept ==
  (cleanPc = "done" /\ PlainTempTree(diskAtStart) /\ faulty = {}) =>
     /\ tempDir \in DOMAIN disk
     /\ disk[tempDir].kind = "dir"
     /\ BelowTemp(disk) = {}
     /\ errLog = << >>
     /\ cleanExit = << 0 >>

\* a tree three levels deep, with a file beside a directory, has been removed
C22_Witness ==
  /\ cleanPc = "done"
  /\ PlainTempTree(diskAtStart)
  /\ faulty = {}
  /\ \E x \in BelowTemp(diskAtStart) :
        /\ Len(x) = Len(tempDir) + 3
        /\ diskAtStart[x].kind = "file"
  /\ \E x \in BelowTemp(diskAtStart) :
        /\ Len(x) = Len(tempDir) + 1
        /\ diskAtStart[x].kind = "file"
  /\ BelowTemp(disk) = {}
  /\ tempDir \in DOMAIN disk

\* C23: when the removal of one entry below Temp fails, every other entry
\* below Temp that is not a directory above the failed one is still removed,
\* and the failure is reported.
C23_OtherEntriesRemoved ==
  (cleanPc = "done" /\ PlainTempTree(diskAtStart) /\ Cardinality(faulty) = 1) =>
     /\ \A e \in BelowTemp(diskAtStart) :
          (e \notin faulty /\ \A f \in faulty : ~IsPrefix(e, f)) => e \notin DOMAIN disk
     /\ errLog # << >>

\* a failure at the top of Temp leaves the other entries of Temp removed
C23_TopLevelFailure ==
  /\ cleanPc = "done"
  /\ PlainTempTree(diskAtStart)
  /\ faulty = { tempDir \o << <<"a">> >> }
  /\ diskAtStart[tempDir \o << <<"a">> >>].kind = "file"
  /\ Cardinality(BelowTemp(diskAtStart)) = 4
  /\ BelowTemp(disk) = faulty
  /\ errLog = << tempDir \o << <<"a">> >> >>

\* C24: the cleanup process removes and changes nothing outside Temp, links
\* inside Temp included, and leaves Temp itself in place.
C24_ScopedToTemp ==
  /\ \A x \in DOMAIN Outside : x \in DOMAIN disk /\ disk[x] = Outside[x]
  /\ tempDir \in DOMAIN diskAtStart => tempDir \in DOMAIN disk /\ disk[tempDir] = diskAtStart[tempDir]

\* the same, for trees without links
C24_ScopedWithoutLinks ==
  (\A x \in BelowTemp(diskAtStart) : diskAtStart[x].kind # "link") => C24_ScopedToTemp

(***************************************************************************)
(* Properties of the orchestrated run                                      *)
(***************************************************************************)
SuiteActive   == pc \notin { "idle", "exited" }
CombineActive == cpc # "idle" /\ combineExit = << >>
CleanActive   == cleanPc \in { "start", "loop" }

\* C21: in an orchestrated run a suite-report process is alive only in the
\* suite stage, the combine process only in the combine stage, which begins
\* after the last suite-report process has ended, and the cleanup process
\* only in the cleanup stage, which begins after the combine process has
\* ended; so no two of them are ever active together
C21_StagesInSequence ==
  /\ SuiteActive => stage = "suites"
  /\ CombineActive => stage = "combine"
  /\ CleanActive => stage = "cleanup"
  /\ stage = "cleanup" => combineExit # << >>
  /\ stage = "off" /\ flowRun > 0 => cleanExit # << >>

\* a run that rendered a suite, combined it and is cleaning up
C21_Witness ==
  /\ stage = "cleanup"
  /\ CleanActive
  /\ cpc = "done"
  /\ lastRender # renderedBefore

\* the Temp documents rendered during the current run
FreshDocs ==
  { tempFileOf(id[1], id[2]) :
      id \in { x \in DOMAIN lastRender :
                 x \in DOMAIN renderedBefore =>
                   lastRender[x].renders > renderedBefore[x].renders } }

\* C29: the documents the combine process of a run picks were all rendered
\* during that run
C29_OnlyFreshDocsCombined ==
  stage = "combine" => \A i \in DOMAIN picked : picked[i] \in FreshDocs

\* a combine process that picked a document of its own run
C29_FreshPicked ==
  /\ stage = "combine"
  /\ cpc = "done"
  /\ picked # << >>
  /\ \A i \in DOMAIN picked : picked[i] \in FreshDocs

\* the suite documents Temp held when the cleanup process started and no
\* longer holds
DeletedDocs == findSuiteHtmls(diskAtStart, TEMP_ROOT) \ DOMAIN files

\* C30: the cleanup stage deletes suite documents of Temp only in a run
\* whose combine process ended with status 0 after writing the report
C30_DeletedOnlyAfterCombine ==
  stage = "cleanup" /\ DeletedDocs # {} => combineExit = << 0 >> /\ cpc = "done"

\* a cleanup that deleted the documents after a successful combine
C30_DeletedAfterSuccess ==
  /\ stage = "cleanup"
  /\ DeletedDocs # {}
  /\ combineExit = << 0 >>
  /\ cpc = "done"

====
